---------------------------- MODULE Spec2Model ----------------------------
(***************************************************************************)
(* Trip event correlation in Bolt-Ride-Real-Time-Trip-Processing.         *)
(*                                                                         *)
(* The repository holds four implementations of the correlation engine:   *)
(*   lambda_processor.py   (DynamoDB, state PARTIAL / COMPLETE)            *)
(*   lambda_function.py    (DynamoDB, status started / completed)          *)
(*   trip_status_updater.py (Flink KeyedProcessFunction, trip_complete)    *)
(*   trip_processor.py     (local SQLite, status in_progress / completed)  *)
(* A deployment runs one of them; `engine` says which.  Each action is one *)
(* pass of the handler over one record / event.                            *)
(*                                                                         *)
(* Values: a datetime is an integer number of hours, a date is the day     *)
(* number DateOf(h).  A fare travels as text (the CSV generator sends      *)
(* strings, the simulator JSON numbers); float() is the lookup Float.      *)
(***************************************************************************)
EXTENDS Integers, Sequences, FiniteSets, TLC

VARIABLES
    engine,         \* which implementation this deployment runs
    now,            \* datetime.utcnow(), in hours
    trip_state,     \* the trip state table: trip_id -> item / row
    quarantine,     \* the put_item calls made on the quarantine table, in order
    trip_events,    \* local processor: the trip_events lineage table
    daily_metrics,  \* local processor: the daily_metrics table, date -> row
    handled,        \* the events handed to the handler so far, in order
    prev_trip_state, \* the trip state table before the last handled event
    inflight,       \* handler invocations running concurrently
    base,           \* the store when the concurrent invocations were launched
    s3,             \* the objects of the KPI bucket: key -> body
    runs,           \* the aggregation runs made so far, in order
    invocation,     \* how the last lambda_handler call on a batch ended
    issues_logged,  \* monitor_data_quality: the module's issues_logged list
    sns,            \* the messages published to the data-quality-alerts topic
    scanned,        \* the scan responses the sweeps examined, in order
    generator       \* send_to_kinesis.py: the state of stream_randomized

vars == <<engine, now, trip_state, quarantine, trip_events, daily_metrics,
          handled, prev_trip_state, inflight, base, s3, runs, invocation,
          issues_logged, sns, scanned, generator>>

(***************************************************************************)
(* Bounds                                                                  *)
(***************************************************************************)
MaxEvents == 3
MaxTime == 1

Trips == {"T1", "T2"}
Engines == {"lambda_processor", "lambda_function", "flink", "local"}

(***************************************************************************)
(* Values                                                                  *)
(***************************************************************************)
NULL == [null |-> TRUE]
NullDate == -1
HoursPerDay == 24
DateOf(h) == h \div HoursPerDay

NumericText == {"-1", "0", "1", "2", "500", "501"}
FareText == {"1", "2", "abc"}
CanFloat(s) == s \in NumericText
Float(s) == CASE s = "-1" -> -1 [] s = "0" -> 0 [] s = "1" -> 1 [] s = "2" -> 2
                 [] s = "500" -> 500 [] s = "501" -> 501

Has(d, k) == k \in DOMAIN d
GetOr(d, k, dflt) == IF k \in DOMAIN d THEN d[k] ELSE dflt

PickupTimes == {0}
DropoffTimes == {1}
Timestamps == {1}

(***************************************************************************)
(* Kinesis records, as the CSV generator's send_event_to_kinesis builds    *)
(* them: {"event_type", "schema_version", "data"}.                         *)
(***************************************************************************)
StartData(t, f) ==
    [trip_id |-> t, pickup_datetime |-> CHOOSE h \in PickupTimes : TRUE,
     estimated_fare_amount |-> f]
EndData(t, f, d) ==
    [trip_id |-> t, dropoff_datetime |-> d, fare_amount |-> f]

KinesisStarts ==
    {[event_type |-> "trip_start", data |-> StartData(t, f)] :
        t \in Trips, f \in FareText}
KinesisEnds ==
    {[event_type |-> "trip_end", data |-> EndData(t, f, d)] :
        t \in Trips, f \in FareText, d \in DropoffTimes}
KinesisUnknown ==
    {[event_type |-> "trip_cancel", data |-> StartData(t, "1")] : t \in Trips}
KinesisNoTripId ==
    {[event_type |-> "trip_start",
      data |-> [pickup_datetime |-> 0, estimated_fare_amount |-> "1"]]}
\* a fare below zero
KinesisNegativeFare ==
    {[event_type |-> "trip_start", data |-> StartData("T1", "-1")]}
KinesisEvents ==
    KinesisStarts \cup KinesisEnds \cup KinesisUnknown \cup KinesisNoTripId
        \cup KinesisNegativeFare

(***************************************************************************)
(* lambda_processor.py                                                     *)
(***************************************************************************)
Store(ts, q) == [trip_state |-> ts, quarantine |-> q]

\* a quarantine whose reason depends on what the table already holds
MutQuarantineEscalates(store, trip_id, raw_event, reason, t) ==
    Store(store.trip_state,
          Append(store.quarantine,
                 [trip_id |-> trip_id,
                  event_type |-> GetOr(raw_event, "event_type", "UNKNOWN"),
                  reason |-> IF store.quarantine = <<>> THEN reason ELSE "REPEATED",
                  raw_payload |-> raw_event,
                  ingest_time |-> t]))

\* quarantine(trip_id, raw_event, reason)
LPQuarantine(store, trip_id, raw_event, reason, t) ==
    Store(store.trip_state,
          Append(store.quarantine,
                 [trip_id |-> trip_id,
                  event_type |-> GetOr(raw_event, "event_type", "UNKNOWN"),
                  reason |-> reason,
                  raw_payload |-> raw_event,
                  ingest_time |-> t]))

\* The item update_item leaves: SET assigns the named attributes and keeps
\* the others; a missing item is created (upsert).
UpdateItem(ts, trip_id, attrs) ==
    (trip_id :> (attrs @@ GetOr(ts, trip_id, [trip_id |-> trip_id]))) @@ ts

LPStartRaises(event_data) ==
    ~CanFloat(GetOr(event_data, "estimated_fare_amount", "0"))

\* handle_trip_start's UpdateExpression, for an item `old` (<<>> if none)
MutStartResetsState(old, event_data) ==
    [pickup_datetime |-> event_data.pickup_datetime,
     estimated_fare_amount |-> Float(GetOr(event_data, "estimated_fare_amount", "0")),
     trip_start_data |-> event_data,
     state |-> "PARTIAL"]
MutStartKeepsFirst(old, event_data) ==
    [pickup_datetime |-> event_data.pickup_datetime,
     estimated_fare_amount |-> Float(GetOr(event_data, "estimated_fare_amount", "0")),
     trip_start_data |-> GetOr(old, "trip_start_data", event_data),
     state |-> GetOr(old, "state", "PARTIAL")]
LPStartAttrs(old, event_data) ==
    [pickup_datetime |-> event_data.pickup_datetime,
     estimated_fare_amount |-> Float(GetOr(event_data, "estimated_fare_amount", "0")),
     trip_start_data |-> event_data,
     state |-> GetOr(old, "state", "PARTIAL")]

\* handle_trip_start(trip_id, event_data), when float() does not raise
LPHandleTripStart(store, trip_id, event_data) ==
    Store(UpdateItem(store.trip_state, trip_id,
                     LPStartAttrs(GetOr(store.trip_state, trip_id, <<>>), event_data)),
          store.quarantine)

LPEndRaises(event_data) ==
    ~CanFloat(GetOr(event_data, "fare_amount", "0"))

LPEndAttrs(event_data) ==
    [dropoff_datetime |-> event_data.dropoff_datetime,
     fare_amount |-> Float(GetOr(event_data, "fare_amount", "0")),
     trip_end_data |-> event_data,
     state |-> "COMPLETE"]

ProcessingError == "PROCESSING_ERROR: could not convert string to float"

\* handle_trip_end's second half: the unconditional update_item
LPEndUpdate(store, trip_id, event_data) ==
    Store(UpdateItem(store.trip_state, trip_id, LPEndAttrs(event_data)),
          store.quarantine)

\* trip_state_table.get_item(Key={"trip_id": trip_id})
LPGetItem(ts, trip_id) ==
    IF Has(ts, trip_id) THEN [Item |-> ts[trip_id]] ELSE <<>>

\* handle_trip_end raises: float() is reached only past the ORPHAN_END return
LPEndAfterGetRaises(response, event_data) ==
    Has(response, "Item") /\ LPEndRaises(event_data)

\* handle_trip_end after its get_item returned `response`, when it does not
\* raise: the ORPHAN_END return, or the update_item
MutEndPutsItemRead(store, response, trip_id, event_data, t) ==
    IF ~Has(response, "Item")
    THEN LPQuarantine(store, trip_id, event_data, "ORPHAN_END", t)
    ELSE Store((trip_id :> (LPEndAttrs(event_data) @@ response.Item))
                    @@ store.trip_state,
               store.quarantine)
LPEndAfterGet(store, response, trip_id, event_data, t) ==
    IF ~Has(response, "Item")
    THEN LPQuarantine(store, trip_id, event_data, "ORPHAN_END", t)
    ELSE LPEndUpdate(store, trip_id, event_data)

LPHandleTripEndRaises(store, trip_id, event_data) ==
    LPEndAfterGetRaises(LPGetItem(store.trip_state, trip_id), event_data)

\* handle_trip_end(trip_id, event_data) run without interruption, when it
\* does not raise
MutEndUpserts(store, trip_id, event_data, t) ==
    IF LPEndRaises(event_data) THEN store
    ELSE LPEndUpdate(store, trip_id, event_data)
LPHandleTripEnd(store, trip_id, event_data, t) ==
    LPEndAfterGet(store, LPGetItem(store.trip_state, trip_id), trip_id,
                  event_data, t)

\* lambda_handler's loop body for one record whose payload is `payload`
LPHandleRecord(store, payload, t) ==
    LET event_type == GetOr(payload, "event_type", "")
        event_data == payload.data
        trip_id == GetOr(event_data, "trip_id", "")
    IN  IF event_type = "" \/ trip_id = "" THEN
            LPQuarantine(store, "UNKNOWN", payload, "INVALID_SCHEMA", t)
        ELSE IF event_type = "trip_start" THEN
            IF LPStartRaises(event_data)
            THEN LPQuarantine(store, trip_id, payload, ProcessingError, t)
            ELSE LPHandleTripStart(store, trip_id, event_data)
        ELSE IF event_type = "trip_end" THEN
            IF LPHandleTripEndRaises(store, trip_id, event_data)
            THEN LPQuarantine(store, trip_id, payload, ProcessingError, t)
            ELSE LPHandleTripEnd(store, trip_id, event_data, t)
        ELSE LPQuarantine(store, trip_id, payload, "UNKNOWN_EVENT_TYPE", t)

(***************************************************************************)
(* lambda_function.py                                                      *)
(***************************************************************************)
\* put_item replaces the whole item stored under the key
PutItem(ts, trip_id, item) == (trip_id :> item) @@ ts

\* the except branch: quarantine_table.put_item({event_id, raw_data, error})
LFQuarantine(store, event_id, payload, error) ==
    Store(store.trip_state,
          Append(store.quarantine,
                 [event_id |-> event_id, raw_data |-> payload, error |-> error]))

\* handle_trip_start(event_body), trip_id present
LFHandleTripStart(ts, trip_id, event_body) ==
    PutItem(ts, trip_id,
            [trip_id |-> trip_id, status |-> "started", trip_start |-> event_body])

\* handle_trip_end(event_body), item present with a trip_start
LFHandleTripEnd(ts, trip_id, event_body) ==
    PutItem(ts, trip_id,
            [trip_id |-> trip_id, status |-> "completed",
             trip_start |-> ts[trip_id].trip_start, trip_end |-> event_body])

\* lambda_handler's loop body for one record (eventID `event_id`)
LFHandleRecord(store, payload, event_id) ==
    LET event_type == payload.event_type
        event_body == payload.data
        trip_id == GetOr(event_body, "trip_id", "")
        ts == store.trip_state
    IN  IF event_type = "trip_start" THEN
            IF trip_id = ""
            THEN LFQuarantine(store, event_id, payload, "Missing trip_id in trip_start")
            ELSE Store(LFHandleTripStart(ts, trip_id, event_body), store.quarantine)
        ELSE IF event_type = "trip_end" THEN
            IF trip_id = ""
            THEN LFQuarantine(store, event_id, payload, "Missing trip_id in trip_end")
            ELSE IF ~Has(ts, trip_id) \/ ~Has(ts[trip_id], "trip_start")
            THEN LFQuarantine(store, event_id, payload, "No matching trip_start for trip_id")
            ELSE Store(LFHandleTripEnd(ts, trip_id, event_body), store.quarantine)
        ELSE LFQuarantine(store, event_id, payload, "Unsupported event_type")

(***************************************************************************)
(* trip_status_updater.py: TripEventProcessor.process_element              *)
(* The location, vendor, rate, passenger, distance, tip and payment fields *)
(* travel with the datetime and fare fields and are not modelled apart.    *)
(***************************************************************************)
\* ddb.update_item raises: a None key, or an N attribute that is no number
FlinkRaises(event_record) ==
    LET data == event_record.data
    IN  \/ /\ event_record.event_type = "trip_start"
           /\ \/ ~Has(data, "trip_id")
              \/ ~Has(data, "estimated_fare_amount")
              \/ ~CanFloat(data.estimated_fare_amount)
        \/ /\ event_record.event_type = "trip_end"
           /\ \/ ~Has(data, "trip_id")
              \/ ~Has(data, "fare_amount")
              \/ ~CanFloat(data.fare_amount)

FlinkStartAttrs(data, t) ==
    [pickup_datetime |-> data.pickup_datetime,
     estimated_fare_amount |-> Float(data.estimated_fare_amount),
     updated_at |-> t]

FlinkEndAttrs(data, t) ==
    [dropoff_datetime |-> data.dropoff_datetime,
     fare_amount |-> Float(data.fare_amount),
     trip_complete |-> TRUE,
     updated_at |-> t]

\* process_element(value, ctx): every exception is printed and swallowed
FlinkProcessElement(ts, event_record, t) ==
    LET data == event_record.data
    IN  IF FlinkRaises(event_record) THEN ts
        ELSE IF event_record.event_type = "trip_start"
        THEN UpdateItem(ts, data.trip_id, FlinkStartAttrs(data, t))
        ELSE IF event_record.event_type = "trip_end"
        THEN UpdateItem(ts, data.trip_id, FlinkEndAttrs(data, t))
        ELSE ts

(***************************************************************************)
(* trip_processor.py: LocalDatabase and TripProcessor                      *)
(* The dataclass fields user_id, driver_id, locations, vendor, tip,        *)
(* distance, ... travel with the datetime and fare fields and are not      *)
(* modelled apart.  The methods are modelled as written; that the module's *)
(* dataclass declarations (fields without defaults after TripEvent's       *)
(* defaulted ones) raise TypeError when the module is loaded is not.       *)
(***************************************************************************)
Metadata == [source |-> "mobile_app_simulator"]

LocalStart(t, f, ts) ==
    [event_type |-> "trip_start", schema_version |-> "2.0", trip_id |-> t,
     pickup_datetime |-> CHOOSE h \in PickupTimes : TRUE,
     estimated_fare |-> f, timestamp |-> ts, metadata |-> Metadata]
LocalEnd(t, f, d, ts) ==
    [event_type |-> "trip_end", schema_version |-> "2.0", trip_id |-> t,
     dropoff_datetime |-> d, final_fare |-> f, timestamp |-> ts,
     metadata |-> Metadata]

LocalStarts == {LocalStart(t, f, 0) : t \in Trips, f \in FareText}
LocalEnds ==
    {LocalEnd(t, f, d, ts) :
        t \in Trips, f \in FareText, d \in DropoffTimes, ts \in Timestamps}
LocalUnknown ==
    {[event_type |-> "trip_cancel", schema_version |-> "2.0", trip_id |-> t,
      timestamp |-> 1, metadata |-> Metadata] : t \in Trips}
\* no trip_id key: _validate_event fails
LocalNoTripId ==
    {[event_type |-> "trip_start", schema_version |-> "2.0", timestamp |-> 0,
      pickup_datetime |-> 0, estimated_fare |-> "1", metadata |-> Metadata]}
\* a trip_end without its own fields: TripEndEvent(**event_data) raises
LocalMalformed ==
    {[event_type |-> "trip_end", schema_version |-> "2.0", trip_id |-> t,
      timestamp |-> 1, metadata |-> Metadata] : t \in Trips}
\* a trip_id key holding the empty string
LocalEmptyTripId == {LocalStart("", "1", 0)}
LocalEvents ==
    LocalStarts \cup LocalEnds \cup LocalUnknown \cup LocalNoTripId
        \cup LocalMalformed \cup LocalEmptyTripId

Db(ts, ev, dm) == [trip_state |-> ts, trip_events |-> ev, daily_metrics |-> dm]

\* _validate_event
TPValidateEvent(event_data) ==
    {"event_type", "trip_id", "timestamp"} \subseteq DOMAIN event_data

BaseFields == {"event_type", "trip_id", "timestamp"}
BaseDefaults == [schema_version |-> "2.0", metadata |-> NULL]
OwnFields(event_type) ==
    CASE event_type = "trip_start" -> {"pickup_datetime", "estimated_fare"}
      [] event_type = "trip_end" -> {"dropoff_datetime", "final_fare"}
      [] OTHER -> {}

\* _create_event_object: the dataclass constructor raises TypeError on a
\* missing field and on an unexpected keyword
TPCreateRaises(event_data) ==
    LET own == OwnFields(event_data.event_type)
    IN  \/ ~((BaseFields \cup own) \subseteq DOMAIN event_data)
        \/ ~(DOMAIN event_data \subseteq
                (BaseFields \cup own \cup DOMAIN BaseDefaults))

\* TripEvent.to_dict: asdict of the dataclass built from **event_data
ToDict(event_data) == event_data @@ BaseDefaults

\* a TEXT column holding json.dumps(x) if x else None
ToColumn(x) == IF x = NULL THEN NULL ELSE [json |-> x]
\* json.loads(col) if col else None
FromColumn(col) == IF col = NULL THEN NULL ELSE col.json

\* LocalDatabase.insert_event
InsertEvent(ev, event, t) ==
    Append(ev, [event_id |-> Len(ev) + 1,
                trip_id |-> event.trip_id,
                event_type |-> event.event_type,
                event_data |-> ToDict(event),
                processed_at |-> t,
                processing_status |-> "processed"])

\* LocalDatabase.get_trip_state, for a stored row
GetTripState(ts, trip_id) ==
    [trip_id |-> trip_id,
     status |-> ts[trip_id].status,
     trip_start_data |-> FromColumn(ts[trip_id].trip_start_data),
     trip_end_data |-> FromColumn(ts[trip_id].trip_end_data),
     created_at |-> ts[trip_id].created_at,
     updated_at |-> ts[trip_id].updated_at,
     completion_date |-> ts[trip_id].completion_date]

\* LocalDatabase.update_trip_state: INSERT OR REPLACE of the whole row
UpdateTripState(ts, trip_data, t) ==
    (trip_data.trip_id :>
        [trip_id |-> trip_data.trip_id,
         status |-> trip_data.status,
         trip_start_data |-> ToColumn(GetOr(trip_data, "trip_start_data", NULL)),
         trip_end_data |-> ToColumn(GetOr(trip_data, "trip_end_data", NULL)),
         created_at |-> trip_data.created_at,
         updated_at |-> t,
         completion_date |-> GetOr(trip_data, "completion_date", NullDate)]) @@ ts

\* a trip_start that updates the stored row instead of replacing it
MutTPStartMerges(ts, event, t) ==
    UpdateTripState(ts,
        [status |-> "in_progress", trip_start_data |-> ToDict(event)]
            @@ (IF Has(ts, event.trip_id)
                THEN GetTripState(ts, event.trip_id)
                ELSE [trip_id |-> event.trip_id, created_at |-> t]), t)

\* _process_trip_start
TPProcessTripStart(ts, event, t) ==
    UpdateTripState(ts, [trip_id |-> event.trip_id,
                         status |-> "in_progress",
                         trip_start_data |-> ToDict(event),
                         created_at |-> t], t)

\* _process_trip_end, up to and including db.update_trip_state
TPCompletionDate(event) == DateOf(event.timestamp)
MutTPEndDropsStart(ts, event, t) ==
    UpdateTripState(ts,
        [trip_id |-> event.trip_id, status |-> "completed",
         trip_start_data |-> NULL, created_at |-> t,
         trip_end_data |-> ToDict(event),
         completion_date |-> TPCompletionDate(event)], t)
TPProcessTripEndState(ts, event, t) ==
    LET trip_state0 ==
            IF Has(ts, event.trip_id)
            THEN GetTripState(ts, event.trip_id)
            ELSE [trip_id |-> event.trip_id, status |-> "completed",
                  trip_start_data |-> NULL, created_at |-> t]
    IN  UpdateTripState(ts,
            [status |-> "completed",
             trip_end_data |-> ToDict(event),
             completion_date |-> TPCompletionDate(event)] @@ trip_state0, t)

\* LocalDatabase.get_completed_trips_by_date, as the set of the rows' keys
CompletedTripsByDate(ts, date) ==
    {k \in DOMAIN ts : ts[k].status = "completed" /\ ts[k].completion_date = date}

FinalFareText(ts, k) ==
    GetOr(FromColumn(ts[k].trip_end_data), "final_fare", "0")

\* `fare > 0` raises TypeError when a row's final_fare is not a number
TPMetricsRaises(ts, date) ==
    \E k \in CompletedTripsByDate(ts, date) :
        /\ ts[k].trip_end_data # NULL
        /\ ~CanFloat(FinalFareText(ts, k))

\* the trips whose fare enters `fares`
FareTrips(ts, date) ==
    {k \in CompletedTripsByDate(ts, date) :
        /\ ts[k].trip_end_data # NULL
        /\ Float(FinalFareText(ts, k)) > 0}

RECURSIVE SumFares(_, _)
SumFares(ts, S) ==
    IF S = {} THEN 0
    ELSE LET k == CHOOSE x \in S : TRUE
         IN  Float(FinalFareText(ts, k)) + SumFares(ts, S \ {k})
MaxFare(ts, S) ==
    CHOOSE m \in {Float(FinalFareText(ts, k)) : k \in S} :
        \A k \in S : Float(FinalFareText(ts, k)) <= m
MinFare(ts, S) ==
    CHOOSE m \in {Float(FinalFareText(ts, k)) : k \in S} :
        \A k \in S : Float(FinalFareText(ts, k)) >= m

\* _update_daily_metrics(date), when it does not raise; average_fare is the
\* quotient total / count, kept as the pair
MutMetricsMerged(ts, dm, date, t) ==
    LET S == FareTrips(ts, date)
        old == GetOr(dm, date, [total_fare |-> 0, trip_count |-> 0])
    IN  IF S = {} THEN dm
        ELSE (date :> [date |-> date,
                       total_fare |-> old.total_fare + SumFares(ts, S),
                       trip_count |-> old.trip_count + Cardinality(S),
                       average_fare |-> <<old.total_fare + SumFares(ts, S),
                                          old.trip_count + Cardinality(S)>>,
                       max_fare |-> MaxFare(ts, S),
                       min_fare |-> MinFare(ts, S),
                       generated_at |-> t]) @@ dm
MutMetricsInsertOrIgnore(ts, dm, date, t) ==
    LET S == FareTrips(ts, date)
    IN  IF S = {} \/ Has(dm, date) THEN dm
        ELSE (date :> [date |-> date,
                       total_fare |-> SumFares(ts, S),
                       trip_count |-> Cardinality(S),
                       average_fare |-> <<SumFares(ts, S), Cardinality(S)>>,
                       max_fare |-> MaxFare(ts, S),
                       min_fare |-> MinFare(ts, S),
                       generated_at |-> t]) @@ dm
TPUpdateDailyMetrics(ts, dm, date, t) ==
    LET S == FareTrips(ts, date)
    IN  IF S = {} THEN dm
        ELSE (date :> [date |-> date,
                       total_fare |-> SumFares(ts, S),
                       trip_count |-> Cardinality(S),
                       average_fare |-> <<SumFares(ts, S), Cardinality(S)>>,
                       max_fare |-> MaxFare(ts, S),
                       min_fare |-> MinFare(ts, S),
                       generated_at |-> t]) @@ dm

\* a process_event that stores the lineage row once the state processing
\* has returned
MutInsertAfterProcessing(db, event_data, t) ==
    IF ~TPValidateEvent(event_data) THEN db
    ELSE IF TPCreateRaises(event_data) THEN db
    ELSE
        LET ev == InsertEvent(db.trip_events, event_data, t)
        IN  IF event_data.event_type = "trip_start" THEN
                Db(TPProcessTripStart(db.trip_state, event_data, t), ev,
                   db.daily_metrics)
            ELSE IF event_data.event_type = "trip_end" THEN
                LET ts == TPProcessTripEndState(db.trip_state, event_data, t)
                    date == TPCompletionDate(event_data)
                IN  IF TPMetricsRaises(ts, date)
                    THEN Db(ts, db.trip_events, db.daily_metrics)
                    ELSE Db(ts, ev, TPUpdateDailyMetrics(ts, db.daily_metrics, date, t))
            ELSE Db(db.trip_state, db.trip_events, db.daily_metrics)

\* process_event(event_data); `except Exception` returns an error and keeps
\* what was committed before the exception
TPProcessEvent(db, event_data, t) ==
    IF ~TPValidateEvent(event_data) THEN db
    ELSE IF TPCreateRaises(event_data) THEN db
    ELSE
        LET ev == InsertEvent(db.trip_events, event_data, t)
        IN  IF event_data.event_type = "trip_start" THEN
                Db(TPProcessTripStart(db.trip_state, event_data, t), ev,
                   db.daily_metrics)
            ELSE IF event_data.event_type = "trip_end" THEN
                LET ts == TPProcessTripEndState(db.trip_state, event_data, t)
                    date == TPCompletionDate(event_data)
                IN  IF TPMetricsRaises(ts, date)
                    THEN Db(ts, ev, db.daily_metrics)
                    ELSE Db(ts, ev, TPUpdateDailyMetrics(ts, db.daily_metrics, date, t))
            ELSE Db(db.trip_state, ev, db.daily_metrics)

Idle == inflight = <<>>

\* no lambda_handler call on a batch has been made
NoInvocation == [records |-> <<>>, finished |-> 0, raised |-> FALSE]

LPDeliver(e) ==
    /\ engine = "lambda_processor"
    /\ Idle
    /\ Len(handled) < MaxEvents
    /\ LET s == LPHandleRecord(Store(trip_state, quarantine), e, now)
       IN  /\ trip_state' = s.trip_state
           /\ quarantine' = s.quarantine
    /\ handled' = Append(handled, e)
    /\ prev_trip_state' = trip_state
    /\ UNCHANGED <<engine, now, trip_events, daily_metrics, inflight, base,
                   s3, runs, invocation,
                   issues_logged, sns, scanned, generator>>

LFDeliver(e) ==
    /\ engine = "lambda_function"
    /\ Len(handled) < MaxEvents
    /\ LET s == LFHandleRecord(Store(trip_state, quarantine), e, Len(handled) + 1)
       IN  /\ trip_state' = s.trip_state
           /\ quarantine' = s.quarantine
    /\ handled' = Append(handled, e)
    /\ prev_trip_state' = trip_state
    /\ UNCHANGED <<engine, now, trip_events, daily_metrics, inflight, base,
                   s3, runs, invocation,
                   issues_logged, sns, scanned, generator>>

FlinkDeliver(e) ==
    /\ engine = "flink"
    /\ Len(handled) < MaxEvents
    /\ trip_state' = FlinkProcessElement(trip_state, e, now)
    /\ handled' = Append(handled, e)
    /\ prev_trip_state' = trip_state
    /\ UNCHANGED <<engine, now, quarantine, trip_events, daily_metrics,
                   inflight, base,
                   s3, runs, invocation,
                   issues_logged, sns, scanned, generator>>

TPDeliver(e) ==
    /\ engine = "local"
    /\ Len(handled) < MaxEvents
    /\ LET db == TPProcessEvent(Db(trip_state, trip_events, daily_metrics), e, now)
       IN  /\ trip_state' = db.trip_state
           /\ trip_events' = db.trip_events
           /\ daily_metrics' = db.daily_metrics
    /\ handled' = Append(handled, e)
    /\ prev_trip_state' = trip_state
    /\ UNCHANGED <<engine, now, quarantine, inflight, base,
                   s3, runs, invocation,
                   issues_logged, sns, scanned, generator>>

Tick ==
    /\ now < MaxTime
    /\ now' = now + 1
    /\ UNCHANGED <<engine, trip_state, quarantine, trip_events, daily_metrics,
                   handled, prev_trip_state, inflight, base,
                   s3, runs, invocation,
                   issues_logged, sns, scanned, generator>>

(***************************************************************************)
(* send_to_kinesis.py: the CSV generator                                   *)
(***************************************************************************)
MaxGenRows == 3

\* load_csv_events(path, label): the rows of the two files
GenStartRows == {[event |-> StartData(t, "1"), type |-> "trip_start"] : t \in Trips}
GenEndRows ==
    {[event |-> EndData(t, "1", CHOOSE d \in DropoffTimes : TRUE),
      type |-> "trip_end"] : t \in Trips}
BoundedSeqs(S, n) == UNION {[1..m -> S] : m \in 0..n}

\* random.shuffle(combined): any order of the rows
Shuffles(rows) ==
    {[i \in DOMAIN rows |-> rows[p[i]]] : p \in Permutations(DOMAIN rows)}

\* stream_randomized has not been called
NoGenerator ==
    [pc |-> "load", combined |-> <<>>, position |-> 1, seen_trip_ids |-> {},
     stream |-> <<>>]

\* send_event_to_kinesis: the record put on the stream
SendEventToKinesis(event, event_type) ==
    [event_type |-> event_type, schema_version |-> "1.0", data |-> event]

\* quarantine_event: the Item put in quarantined_events
QuarantineEvent(event, reason, t) ==
    [trip_id |-> event.trip_id,
     event_data |-> [json |-> event],
     reason |-> reason,
     timestamp |-> t]

\* a loop body that remembers the trip_id of every row it meets
MutSeenOnAnyRow(g, q, item, t) ==
    LET event == item.event
        trip_id == event.trip_id
        met == [g EXCEPT !.position = @ + 1,
                         !.seen_trip_ids = @ \cup {trip_id}]
    IN  IF item.type = "trip_end" /\ trip_id \notin g.seen_trip_ids
        THEN [generator |-> met,
              quarantine |-> Append(q, QuarantineEvent(event,
                                  "Trip end received before trip start", t))]
        ELSE [generator |-> [met EXCEPT !.stream =
                                Append(@, SendEventToKinesis(event, item.type))],
              quarantine |-> q]

\* the body of stream_randomized's loop for one item of `combined`
StreamItem(g, q, item, t) ==
    LET event == item.event
        trip_id == event.trip_id
        next == [g EXCEPT !.position = @ + 1]
    IN  IF item.type = "trip_end" /\ trip_id \notin g.seen_trip_ids
        THEN [generator |-> next,
              quarantine |-> Append(q, QuarantineEvent(event,
                                  "Trip end received before trip start", t))]
        ELSE [generator |->
                  [next EXCEPT !.stream =
                                   Append(@, SendEventToKinesis(event, item.type)),
                               !.seen_trip_ids =
                                   IF item.type = "trip_start"
                                   THEN @ \cup {trip_id} ELSE @],
              quarantine |-> q]

Init ==
    /\ engine \in Engines
    /\ now = 0
    /\ trip_state = <<>>
    /\ quarantine = <<>>
    /\ trip_events = <<>>
    /\ daily_metrics = <<>>
    /\ handled = <<>>
    /\ prev_trip_state = <<>>
    /\ inflight = <<>>
    /\ base = Store(<<>>, <<>>)
    /\ s3 = <<>>
    /\ runs = <<>>
    /\ invocation = NoInvocation
    /\ issues_logged = <<>>
    /\ sns = <<>>
    /\ scanned = <<>>
    /\ generator = NoGenerator

Next ==
    \/ Tick
    \/ \E e \in KinesisEvents : LPDeliver(e)
    \/ \E e \in KinesisEvents : LFDeliver(e)
    \/ \E e \in KinesisEvents : FlinkDeliver(e)
    \/ \E e \in LocalEvents : TPDeliver(e)

Spec == Init /\ [][Next]_vars

(***************************************************************************)
(* Two lambda_processor invocations for one trip_id running concurrently:  *)
(* each store call (update_item, get_item, put_item) is one step.          *)
(***************************************************************************)
MaxPrefix == 2

Invocation(payload) ==
    [payload |-> payload, pc |-> "begin", response |-> <<>>, overlapped |-> FALSE]

\* the events delivered one at a time before the concurrent pair
LPPrefix(e) ==
    /\ Len(handled) < MaxPrefix
    /\ LPDeliver(e)

Launch(e1, e2) ==
    /\ engine = "lambda_processor"
    /\ Idle
    /\ e1.data.trip_id = e2.data.trip_id
    /\ inflight' = <<Invocation(e1), Invocation(e2)>>
    /\ base' = Store(trip_state, quarantine)
    /\ UNCHANGED <<engine, now, trip_state, quarantine, trip_events,
                   daily_metrics, handled, prev_trip_state,
                   s3, runs, invocation,
                   issues_logged, sns, scanned, generator>>

\* another invocation wrote while invocation j held a get_item response
MarkOverlap(inv, i) ==
    [j \in DOMAIN inv |->
        IF j # i /\ inv[j].pc = "got"
        THEN [inv[j] EXCEPT !.overlapped = TRUE]
        ELSE inv[j]]

\* lambda_handler with a trip_start record: one update_item, or the
\* PROCESSING_ERROR put_item when float() raised
ConcStart(i) ==
    /\ ~Idle
    /\ inflight[i].pc = "begin"
    /\ inflight[i].payload.event_type = "trip_start"
    /\ LET payload == inflight[i].payload
           store == Store(trip_state, quarantine)
           s == IF LPStartRaises(payload.data)
                THEN LPQuarantine(store, payload.data.trip_id, payload,
                                  ProcessingError, now)
                ELSE LPHandleTripStart(store, payload.data.trip_id, payload.data)
       IN  /\ trip_state' = s.trip_state
           /\ quarantine' = s.quarantine
    /\ inflight' = MarkOverlap([inflight EXCEPT ![i].pc = "done"], i)
    /\ UNCHANGED <<engine, now, trip_events, daily_metrics, handled,
                   prev_trip_state, base,
                   s3, runs, invocation,
                   issues_logged, sns, scanned, generator>>

\* handle_trip_end's get_item
ConcEndGet(i) ==
    /\ ~Idle
    /\ inflight[i].pc = "begin"
    /\ inflight[i].payload.event_type = "trip_end"
    /\ inflight' = [inflight EXCEPT
                        ![i].pc = "got",
                        ![i].response =
                            LPGetItem(trip_state, inflight[i].payload.data.trip_id)]
    /\ UNCHANGED <<engine, now, trip_state, quarantine, trip_events,
                   daily_metrics, handled, prev_trip_state, base,
                   s3, runs, invocation,
                   issues_logged, sns, scanned, generator>>

\* the rest of handle_trip_end, and lambda_handler's except branch
ConcEndWrite(i) ==
    /\ ~Idle
    /\ inflight[i].pc = "got"
    /\ LET payload == inflight[i].payload
           store == Store(trip_state, quarantine)
           s == IF LPEndAfterGetRaises(inflight[i].response, payload.data)
                THEN LPQuarantine(store, payload.data.trip_id, payload,
                                  ProcessingError, now)
                ELSE LPEndAfterGet(store, inflight[i].response,
                                   payload.data.trip_id, payload.data, now)
       IN  /\ trip_state' = s.trip_state
           /\ quarantine' = s.quarantine
    /\ inflight' = MarkOverlap([inflight EXCEPT ![i].pc = "done"], i)
    /\ UNCHANGED <<engine, now, trip_events, daily_metrics, handled,
                   prev_trip_state, base,
                   s3, runs, invocation,
                   issues_logged, sns, scanned, generator>>

InitConc == Init /\ engine = "lambda_processor"

\* The clock stands still here: no attribute of a lambda_processor trip item
\* holds a time, and a quarantine record's ingest_time is the only use of it.
NextConc ==
    \/ \E e \in KinesisEvents : LPPrefix(e)
    \/ \E e1, e2 \in KinesisStarts \cup KinesisEnds : Launch(e1, e2)
    \/ \E i \in {1, 2} : ConcStart(i)
    \/ \E i \in {1, 2} : ConcEndGet(i)
    \/ \E i \in {1, 2} : ConcEndWrite(i)

SpecConc == InitConc /\ [][NextConc]_vars

(***************************************************************************)
(* lambda_processor.lambda_handler called with a batch of Kinesis records. *)
(* json.loads(record["kinesis"]["data"]) and event_data.get("trip_id")     *)
(* stand before the try statement: an exception they raise leaves the      *)
(* handler and ends the invocation.                                        *)
(***************************************************************************)
MaxBatch == 2

\* record["kinesis"]["data"]: the text json.dumps(payload), or no JSON text
JsonText(payload) == [json |-> payload]
NotJson == [text |-> "trip_start,T1,1"]

KinesisNoEventType == {[data |-> StartData("T1", "1")]}
KinesisNoData == {[event_type |-> "trip_start"]}

BatchPayloads ==
    {[event_type |-> "trip_start", data |-> StartData("T1", "1")],
     [event_type |-> "trip_end", data |-> EndData("T1", "1", 1)],
     [event_type |-> "trip_end", data |-> EndData("T1", "abc", 1)],
     [event_type |-> "trip_cancel", data |-> StartData("T1", "1")]}
        \cup KinesisNoTripId \cup KinesisNoEventType \cup KinesisNoData
BatchRecords == {JsonText(p) : p \in BatchPayloads} \cup {NotJson}
Batches ==
    UNION {[1..n -> BatchRecords] : n \in 1..MaxBatch}

\* lines 12 to 15 raise: JSONDecodeError, or AttributeError on None.get
LPRecordRaises(record) ==
    \/ ~Has(record, "json")
    \/ ~Has(record.json, "data")

\* lambda_handler(event, context): the store it leaves, the number of
\* records it finished, and whether an exception left it
RECURSIVE LPLambdaHandler(_, _, _)
LPLambdaHandler(store, records, t) ==
    IF records = <<>>
    THEN [store |-> store, finished |-> 0, raised |-> FALSE]
    ELSE IF LPRecordRaises(Head(records))
    THEN [store |-> store, finished |-> 0, raised |-> TRUE]
    ELSE LET rest == LPLambdaHandler(
                        LPHandleRecord(store, Head(records).json, t),
                        Tail(records), t)
         IN  [rest EXCEPT !.finished = @ + 1]

LPInvoke(records) ==
    /\ engine = "lambda_processor"
    /\ Idle
    /\ Len(handled) + Len(records) <= MaxEvents
    /\ LET r == LPLambdaHandler(Store(trip_state, quarantine), records, now)
       IN  /\ trip_state' = r.store.trip_state
           /\ quarantine' = r.store.quarantine
           /\ invocation' = [records |-> records, finished |-> r.finished,
                             raised |-> r.raised]
    /\ handled' = handled \o records
    /\ prev_trip_state' = trip_state
    /\ UNCHANGED <<engine, now, trip_events, daily_metrics, inflight, base,
                   s3, runs,
                   issues_logged, sns, scanned, generator>>

InitBatch == Init /\ engine = "lambda_processor"

\* The clock stands still here: a quarantine record's ingest_time is the
\* only use lambda_processor makes of it.
NextBatch == \E records \in Batches : LPInvoke(records)

SpecBatch == InitBatch /\ [][NextBatch]_vars

(***************************************************************************)
(* Two TripProcessor.process_event calls for one trip_id running           *)
(* concurrently (the Flask server answers each request in its own thread). *)
(* Every LocalDatabase call opens a connection, commits and closes it, and *)
(* is one step.                                                            *)
(***************************************************************************)
MaxTPPrefix == 1

TPInvocation(event) ==
    [event |-> event, pc |-> "begin", got |-> NULL, trips |-> <<>>,
     overlapped |-> FALSE]

\* the events processed one at a time before the concurrent pair
TPPrefix(e) ==
    /\ Len(handled) < MaxTPPrefix
    /\ TPDeliver(e)

TPLaunch(e1, e2) ==
    /\ engine = "local"
    /\ Idle
    /\ e1.trip_id = e2.trip_id
    /\ inflight' = <<TPInvocation(e1), TPInvocation(e2)>>
    /\ base' = Db(trip_state, trip_events, daily_metrics)
    /\ UNCHANGED <<engine, now, trip_state, quarantine, trip_events,
                   daily_metrics, handled, prev_trip_state,
                   s3, runs, invocation,
                   issues_logged, sns, scanned, generator>>

\* LocalDatabase.get_trip_state: the row as a dict, None when there is none
GetTripStateOrNone(ts, trip_id) ==
    IF Has(ts, trip_id) THEN GetTripState(ts, trip_id) ELSE NULL

\* _process_trip_end from its trip_state.update to db.update_trip_state,
\* `got` being what get_trip_state returned
TPEndWrite(ts, got, event, t) ==
    LET trip_state0 ==
            IF got # NULL THEN got
            ELSE [trip_id |-> event.trip_id, status |-> "completed",
                  trip_start_data |-> NULL, created_at |-> t]
    IN  UpdateTripState(ts,
            [status |-> "completed",
             trip_end_data |-> ToDict(event),
             completion_date |-> TPCompletionDate(event)] @@ trip_state0, t)

\* process_event up to and including db.insert_event
TPConcInsert(i) ==
    /\ ~Idle
    /\ inflight[i].pc = "begin"
    /\ trip_events' = InsertEvent(trip_events, inflight[i].event, now)
    /\ inflight' = [inflight EXCEPT ![i].pc = "inserted"]
    /\ UNCHANGED <<engine, now, trip_state, quarantine, daily_metrics,
                   handled, prev_trip_state, base,
                   s3, runs, invocation,
                   issues_logged, sns, scanned, generator>>

\* _process_trip_start: db.update_trip_state
TPConcStart(i) ==
    /\ ~Idle
    /\ inflight[i].pc = "inserted"
    /\ inflight[i].event.event_type = "trip_start"
    /\ trip_state' = TPProcessTripStart(trip_state, inflight[i].event, now)
    /\ inflight' = MarkOverlap([inflight EXCEPT ![i].pc = "done"], i)
    /\ UNCHANGED <<engine, now, quarantine, trip_events, daily_metrics,
                   handled, prev_trip_state, base,
                   s3, runs, invocation,
                   issues_logged, sns, scanned, generator>>

\* _process_trip_end: db.get_trip_state
TPConcEndGet(i) ==
    /\ ~Idle
    /\ inflight[i].pc = "inserted"
    /\ inflight[i].event.event_type = "trip_end"
    /\ inflight' = [inflight EXCEPT
                        ![i].pc = "got",
                        ![i].got = GetTripStateOrNone(trip_state,
                                        inflight[i].event.trip_id)]
    /\ UNCHANGED <<engine, now, trip_state, quarantine, trip_events,
                   daily_metrics, handled, prev_trip_state, base,
                   s3, runs, invocation,
                   issues_logged, sns, scanned, generator>>

\* _process_trip_end: db.update_trip_state
TPConcEndWrite(i) ==
    /\ ~Idle
    /\ inflight[i].pc = "got"
    /\ trip_state' = TPEndWrite(trip_state, inflight[i].got, inflight[i].event, now)
    /\ inflight' = MarkOverlap([inflight EXCEPT ![i].pc = "written"], i)
    /\ UNCHANGED <<engine, now, quarantine, trip_events, daily_metrics,
                   handled, prev_trip_state, base,
                   s3, runs, invocation,
                   issues_logged, sns, scanned, generator>>

\* _update_daily_metrics: db.get_completed_trips_by_date
TPConcMetricsRead(i) ==
    /\ ~Idle
    /\ inflight[i].pc = "written"
    /\ inflight' = [inflight EXCEPT ![i].pc = "read", ![i].trips = trip_state]
    /\ UNCHANGED <<engine, now, trip_state, quarantine, trip_events,
                   daily_metrics, handled, prev_trip_state, base,
                   s3, runs, invocation,
                   issues_logged, sns, scanned, generator>>

\* _update_daily_metrics from the rows read to the INSERT OR REPLACE; a
\* TypeError from `fare > 0` ends process_event in its except branch
TPConcMetricsWrite(i) ==
    /\ ~Idle
    /\ inflight[i].pc = "read"
    /\ LET date == TPCompletionDate(inflight[i].event)
       IN  daily_metrics' =
                IF TPMetricsRaises(inflight[i].trips, date) THEN daily_metrics
                ELSE TPUpdateDailyMetrics(inflight[i].trips, daily_metrics,
                                          date, now)
    /\ inflight' = [inflight EXCEPT ![i].pc = "done"]
    /\ UNCHANGED <<engine, now, trip_state, quarantine, trip_events,
                   handled, prev_trip_state, base,
                   s3, runs, invocation,
                   issues_logged, sns, scanned, generator>>

InitTPConc == Init /\ engine = "local"

\* The clock stands still here, so that the rows of an interleaved run and
\* of a serial run carry the same created_at and updated_at.
NextTPConc ==
    \/ \E e \in LocalEvents : TPPrefix(e)
    \/ \E e1, e2 \in LocalStarts \cup LocalEnds : TPLaunch(e1, e2)
    \/ \E i \in {1, 2} : TPConcInsert(i)
    \/ \E i \in {1, 2} : TPConcStart(i)
    \/ \E i \in {1, 2} : TPConcEndGet(i)
    \/ \E i \in {1, 2} : TPConcEndWrite(i)
    \/ \E i \in {1, 2} : TPConcMetricsRead(i)
    \/ \E i \in {1, 2} : TPConcMetricsWrite(i)

SpecTPConc == InitTPConc /\ [][NextTPConc]_vars

(***************************************************************************)
(* agregate_daily_kpis.py and aggregate_daily_kpis.py: the KPI lambdas.    *)
(* Both scan the trip table for the items lambda_function.py writes        *)
(* (status completed, with a trip_end) and put one object per dropoff date *)
(* into the bucket.  _update_daily_metrics is the local processor's run.   *)
(* A mean is kept as the pair <<sum, count>> it is the quotient of; the    *)
(* rounding to two places is a function of that pair.                      *)
(***************************************************************************)
MaxRuns == 2

\* the events of a day's traffic with a zero fare among them
KpiFareText == {"0", "1", "abc"}
KpiKinesisEvents ==
    {[event_type |-> "trip_start", data |-> StartData(t, "1")] : t \in Trips}
        \cup {[event_type |-> "trip_end", data |-> EndData(t, f, d)] :
                t \in Trips, f \in KpiFareText, d \in DropoffTimes}
KpiLocalEvents ==
    {LocalEnd(t, f, d, ts) :
        t \in Trips, f \in KpiFareText, d \in DropoffTimes, ts \in Timestamps}

\* fetch_completed_trips: the keys of the items the scan's filter passes
FetchCompletedTrips(ts) ==
    {k \in DOMAIN ts :
        Has(ts[k], "trip_end") /\ GetOr(ts[k], "status", "") = "completed"}

\* group_by_date: the dates, and the trips grouped under a date
DropoffDate(ts, k) == DateOf(ts[k].trip_end.dropoff_datetime)
GroupedDates(ts) ==
    {DropoffDate(ts, k) :
        k \in {x \in FetchCompletedTrips(ts) :
                    Has(ts[x].trip_end, "dropoff_datetime")}}
GroupByDate(ts, date) ==
    {k \in FetchCompletedTrips(ts) :
        /\ Has(ts[k].trip_end, "dropoff_datetime")
        /\ DropoffDate(ts, k) = date}

KpiFareOf(ts, k) == Float(ts[k].trip_end.fare_amount)
RECURSIVE KpiSum(_, _)
KpiSum(ts, S) ==
    IF S = {} THEN 0
    ELSE LET k == CHOOSE x \in S : TRUE
         IN  KpiFareOf(ts, k) + KpiSum(ts, S \ {k})
KpiMax(ts, S) ==
    IF S = {} THEN 0
    ELSE CHOOSE m \in {KpiFareOf(ts, k) : k \in S} :
            \A k \in S : KpiFareOf(ts, k) <= m
KpiMin(ts, S) ==
    IF S = {} THEN 0
    ELSE CHOOSE m \in {KpiFareOf(ts, k) : k \in S} :
            \A k \in S : KpiFareOf(ts, k) >= m
Mean(total, count) == IF count = 0 THEN <<0, 1>> ELSE <<total, count>>

\* agregate_daily_kpis.calculate_kpis raises: float() of a fare that is no
\* number (nothing catches it, main ends there)
AgregateRaises(ts, S) ==
    \E k \in S : ~CanFloat(GetOr(ts[k].trip_end, "fare_amount", "abc"))

\* agregate_daily_kpis.calculate_kpis(trips)
AgregateKpis(ts, S) ==
    [total_fare |-> KpiSum(ts, S),
     count_trips |-> Cardinality(S),
     average_fare |-> Mean(KpiSum(ts, S), Cardinality(S)),
     max_fare |-> KpiMax(ts, S),
     min_fare |-> KpiMin(ts, S)]

\* aggregate_daily_kpis.calculate_kpis(trips): a trip whose fare float()
\* rejects is skipped.  Durations are in the clock's unit; no start payload
\* carries a pickup_location, so every city is "Unknown".
AggregateKpis(ts, S) ==
    LET C == {k \in S : CanFloat(GetOr(ts[k].trip_end, "fare_amount", "abc"))}
        RECURSIVE Durations(_)
        Durations(R) ==
            IF R = {} THEN 0
            ELSE LET k == CHOOSE x \in R : TRUE
                 IN  (ts[k].trip_end.dropoff_datetime
                        - ts[k].trip_start.pickup_datetime) + Durations(R \ {k})
    IN  [total_trips |-> Cardinality(C),
         average_fare |-> Mean(KpiSum(ts, C), Cardinality(C)),
         highest_fare |-> KpiMax(ts, C),
         lowest_fare |-> KpiMin(ts, C),
         average_duration_minutes |-> Mean(Durations(C), Cardinality(C)),
         city_with_most_trips |-> "Unknown"]

\* write_to_s3: kpis/<date>.json
FlatKey(date) == [prefix |-> "kpis/", layout |-> "flat", date |-> date]
\* write_to_s3_partitioned: kpis/year=../month=../day=../kpis.json; year,
\* month and day are the parts of the date
PartitionedKey(date) ==
    [prefix |-> "kpis/", layout |-> "partitioned", date |-> date]

\* s3.put_object for each of `objects` (key -> body): a key's body is replaced
PutObjects(bucket, objects) == objects @@ bucket

\* a run, and how many events had been handled when it was made
Run(by, date) == [by |-> by, date |-> date, at |-> Len(handled)]

\* agregate_daily_kpis.main: the groups are taken in the scan's order; when
\* calculate_kpis raises for one, the dates before it (W) have been written
AgregateMain ==
    /\ engine = "lambda_function"
    /\ Len(runs) < MaxRuns
    /\ LET dates == GroupedDates(trip_state)
           bad == {d \in dates : AgregateRaises(trip_state, GroupByDate(trip_state, d))}
           Body(k) == [date |-> k.date]
                        @@ AgregateKpis(trip_state, GroupByDate(trip_state, k.date))
       IN  \E W \in SUBSET (dates \ bad) :
                /\ bad = {} => W = dates
                /\ s3' = PutObjects(s3, [k \in {FlatKey(d) : d \in W} |-> Body(k)])
    /\ runs' = Append(runs, Run("agregate", NullDate))
    /\ UNCHANGED <<engine, now, trip_state, quarantine, trip_events,
                   daily_metrics, handled, prev_trip_state, inflight, base,
                   invocation,
                   issues_logged, sns, scanned, generator>>

\* aggregate_daily_kpis.lambda_handler
AggregateMain ==
    /\ engine = "lambda_function"
    /\ Len(runs) < MaxRuns
    /\ LET Body(k) == [date |-> k.date]
                        @@ AggregateKpis(trip_state, GroupByDate(trip_state, k.date))
       IN  s3' = PutObjects(s3,
                    [k \in {PartitionedKey(d) : d \in GroupedDates(trip_state)}
                        |-> Body(k)])
    /\ runs' = Append(runs, Run("aggregate", NullDate))
    /\ UNCHANGED <<engine, now, trip_state, quarantine, trip_events,
                   daily_metrics, handled, prev_trip_state, inflight, base,
                   invocation,
                   issues_logged, sns, scanned, generator>>

\* TripProcessor._update_daily_metrics(date), run on its own
TPAggregate(date) ==
    /\ engine = "local"
    /\ Len(runs) < MaxRuns
    /\ daily_metrics' =
            IF TPMetricsRaises(trip_state, date) THEN daily_metrics
            ELSE TPUpdateDailyMetrics(trip_state, daily_metrics, date, now)
    /\ runs' = Append(runs, Run("local", date))
    /\ UNCHANGED <<engine, now, trip_state, quarantine, trip_events, handled,
                   prev_trip_state, inflight, base, s3, invocation,
                   issues_logged, sns, scanned, generator>>

InitKpi == Init /\ engine \in {"lambda_function", "local"}

NextKpi ==
    \/ Tick
    \/ \E e \in KpiKinesisEvents : LFDeliver(e)
    \/ \E e \in KpiLocalEvents : TPDeliver(e)
    \/ AgregateMain
    \/ AggregateMain
    \/ \E ts \in Timestamps : TPAggregate(DateOf(ts))

SpecKpi == InitKpi /\ [][NextKpi]_vars

(***************************************************************************)
(* Reading a stored record, whichever engine wrote it                      *)
(***************************************************************************)
IsComplete(item) ==
    CASE engine = "lambda_processor" -> GetOr(item, "state", "") = "COMPLETE"
      [] engine = "lambda_function" -> item.status = "completed"
      [] engine = "flink" -> GetOr(item, "trip_complete", FALSE)
      [] engine = "local" -> item.status = "completed"

IsPartial(item) ==
    CASE engine = "lambda_processor" -> GetOr(item, "state", "") = "PARTIAL"
      [] engine = "lambda_function" -> item.status = "started"
      [] engine = "flink" -> ~GetOr(item, "trip_complete", FALSE)
      [] engine = "local" -> item.status = "in_progress"

StartPayload(item) ==
    CASE engine = "lambda_processor" -> GetOr(item, "trip_start_data", NULL)
      [] engine = "lambda_function" -> GetOr(item, "trip_start", NULL)
      [] engine = "flink" ->
            IF Has(item, "pickup_datetime")
            THEN [pickup_datetime |-> item.pickup_datetime,
                  estimated_fare_amount |-> item.estimated_fare_amount]
            ELSE NULL
      [] engine = "local" -> FromColumn(item.trip_start_data)

EndPayload(item) ==
    CASE engine = "lambda_processor" -> GetOr(item, "trip_end_data", NULL)
      [] engine = "lambda_function" -> GetOr(item, "trip_end", NULL)
      [] engine = "flink" ->
            IF Has(item, "dropoff_datetime")
            THEN [dropoff_datetime |-> item.dropoff_datetime,
                  fare_amount |-> item.fare_amount]
            ELSE NULL
      [] engine = "local" -> FromColumn(item.trip_end_data)

\* the payload of an event: the Kinesis record's data, the local event itself
EvPayload(e) == IF Has(e, "data") THEN e.data ELSE e
EvTrip(e) == GetOr(EvPayload(e), "trip_id", "")
EvFare(e) ==
    LET d == EvPayload(e)
    IN  IF Has(d, "estimated_fare_amount") THEN d.estimated_fare_amount
        ELSE IF Has(d, "fare_amount") THEN d.fare_amount
        ELSE IF Has(d, "estimated_fare") THEN d.estimated_fare
        ELSE GetOr(d, "final_fare", "")
IsStart(e) == e \in KinesisStarts \cup LocalStarts
IsEnd(e) == e \in KinesisEnds \cup LocalEnds
ValidStart(e, t) == IsStart(e) /\ EvTrip(e) = t /\ CanFloat(EvFare(e))
ValidEnd(e, t) == IsEnd(e) /\ EvTrip(e) = t /\ CanFloat(EvFare(e))

Last(q) == q[Len(q)]
\* this step handed one more event to the handler
Handles == Len(handled') = Len(handled) + 1
Handled == Last(handled')

(***************************************************************************)
(* C1: for a trip_id with no stored record, a trip_start and then a        *)
(* trip_end (numeric fares) leave one record for it, complete, whose       *)
(* start and end payloads are the two inputs (lambda_processor, local).    *)
(***************************************************************************)
C1_StartThenEndCompletes ==
    [][\A t \in Trips :
        ( /\ engine \in {"lambda_processor", "local"}
          /\ Handles
          /\ Len(handled) >= 1
          /\ ValidStart(Last(handled), t)
          /\ ~Has(prev_trip_state, t)
          /\ ValidEnd(Handled, t) )
        => /\ Has(trip_state', t)
           /\ IsComplete(trip_state'[t])
           /\ StartPayload(trip_state'[t]) = EvPayload(Last(handled))
           /\ EndPayload(trip_state'[t]) = EvPayload(Handled)]_vars

\* an earlier trip_end for T1 was quarantined and left no record; then the
\* start and the end
C1_Witness ==
    /\ engine = "lambda_processor"
    /\ Len(handled) = 3
    /\ IsEnd(handled[1]) /\ EvTrip(handled[1]) = "T1"
    /\ ValidStart(handled[2], "T1")
    /\ ValidEnd(handled[3], "T1")
    /\ Has(trip_state, "T1")
    /\ IsComplete(trip_state["T1"])
    /\ StartPayload(trip_state["T1"]) = handled[2].data
    /\ EndPayload(trip_state["T1"]) = handled[3].data

(***************************************************************************)
(* C2: in lambda_processor a trip_end for a trip_id with no item creates   *)
(* no trip record and appends exactly one quarantine record, with that     *)
(* trip_id and reason ORPHAN_END.                                          *)
(***************************************************************************)
C2_OrphanEndQuarantined ==
    [][\A t \in Trips :
        ( /\ engine = "lambda_processor"
          /\ Handles
          /\ IsEnd(Handled) /\ EvTrip(Handled) = t
          /\ ~Has(trip_state, t) )
        => /\ trip_state' = trip_state
           /\ Len(quarantine') = Len(quarantine) + 1
           /\ SubSeq(quarantine', 1, Len(quarantine)) = quarantine
           /\ Last(quarantine').trip_id = t
           /\ Last(quarantine').reason = "ORPHAN_END"
           /\ Last(quarantine').raw_payload = EvPayload(Handled)]_vars

C2_Witness ==
    /\ engine = "lambda_processor"
    /\ Len(handled) = 1
    /\ IsEnd(handled[1]) /\ EvTrip(handled[1]) = "T2"
    /\ trip_state = <<>>
    /\ Len(quarantine) = 1
    /\ quarantine[1].reason = "ORPHAN_END"

(***************************************************************************)
(* C3: every stored trip record whose status is complete has both a start  *)
(* payload and an end payload (all engines).                               *)
(***************************************************************************)
C3_CompleteHasBothPayloads ==
    \A t \in DOMAIN trip_state :
        IsComplete(trip_state[t])
        => /\ StartPayload(trip_state[t]) # NULL
           /\ EndPayload(trip_state[t]) # NULL

(***************************************************************************)
(* C4: in lambda_processor handle_trip_start on a COMPLETE record leaves   *)
(* state, dropoff_datetime, fare_amount and trip_end_data as they were,    *)
(* and, when it returns (float() accepts the fare), has replaced           *)
(* pickup_datetime, estimated_fare_amount and trip_start_data by the new   *)
(* payload's.                                                              *)
(***************************************************************************)
C4_StartOnCompleteFrame ==
    [][\A t \in Trips :
        ( /\ engine = "lambda_processor"
          /\ Handles
          /\ IsStart(Handled) /\ EvTrip(Handled) = t
          /\ Has(trip_state, t)
          /\ IsComplete(trip_state[t]) )
        => /\ trip_state'[t].state = trip_state[t].state
           /\ trip_state'[t].dropoff_datetime = trip_state[t].dropoff_datetime
           /\ trip_state'[t].fare_amount = trip_state[t].fare_amount
           /\ trip_state'[t].trip_end_data = trip_state[t].trip_end_data
           /\ DOMAIN trip_state'[t] = DOMAIN trip_state[t]
           /\ CanFloat(EvFare(Handled))
                => /\ trip_state'[t].pickup_datetime = Handled.data.pickup_datetime
                   /\ trip_state'[t].estimated_fare_amount = Float(EvFare(Handled))
                   /\ trip_state'[t].trip_start_data = Handled.data]_vars

C4_Witness ==
    /\ engine = "lambda_processor"
    /\ Len(handled) = 3
    /\ ValidStart(handled[1], "T1")
    /\ ValidEnd(handled[2], "T1")
    /\ ValidStart(handled[3], "T1")
    /\ handled[3] # handled[1]
    /\ trip_state["T1"].state = "COMPLETE"
    /\ trip_state["T1"].trip_start_data = handled[3].data

(***************************************************************************)
(* C5: in the local processor and in lambda_function, a record that has    *)
(* reached the completed status keeps that status, its end payload and its *)
(* completion_date in every later state.                                   *)
(***************************************************************************)
CompletionDate(item) == GetOr(item, "completion_date", NullDate)

C5_CompletedStaysCompleted ==
    [][\A t \in Trips :
        ( /\ engine \in {"local", "lambda_function"}
          /\ Has(trip_state, t)
          /\ IsComplete(trip_state[t]) )
        => /\ Has(trip_state', t)
           /\ IsComplete(trip_state'[t])
           /\ EndPayload(trip_state'[t]) = EndPayload(trip_state[t])
           /\ CompletionDate(trip_state'[t]) = CompletionDate(trip_state[t])]_vars

(***************************************************************************)
(* C6: a trip_end for a COMPLETE record with a different end payload       *)
(* appends one DUPLICATE_END quarantine record and leaves the stored       *)
(* record unchanged (lambda_processor, local).                             *)
(***************************************************************************)
C6_DifferentEndQuarantined ==
    [][\A t \in Trips :
        ( /\ engine \in {"lambda_processor", "local"}
          /\ Handles
          /\ ValidEnd(Handled, t)
          /\ Has(trip_state, t)
          /\ IsComplete(trip_state[t])
          /\ EndPayload(trip_state[t]) # EvPayload(Handled) )
        => /\ trip_state'[t] = trip_state[t]
           /\ Len(quarantine') = Len(quarantine) + 1
           /\ Last(quarantine').reason = "DUPLICATE_END"]_vars

(***************************************************************************)
(* C7: a trip_end identical to the end payload stored in a COMPLETE record *)
(* is a no-op: the record is the same afterwards and no quarantine record  *)
(* is added (lambda_processor, local).                                     *)
(***************************************************************************)
C7_IdenticalEndNoOp ==
    [][\A t \in Trips :
        ( /\ engine \in {"lambda_processor", "local"}
          /\ Handles
          /\ ValidEnd(Handled, t)
          /\ Has(trip_state, t)
          /\ IsComplete(trip_state[t])
          /\ EndPayload(trip_state[t]) = EvPayload(Handled) )
        => /\ trip_state'[t] = trip_state[t]
           /\ quarantine' = quarantine]_vars

(***************************************************************************)
(* C8: a second trip_start for a PARTIAL record, with a different          *)
(* estimated fare, replaces the stored start payload, leaves the status    *)
(* PARTIAL and adds no quarantine record (lambda_processor, local).        *)
(***************************************************************************)
C8_RestartOverwritesStart ==
    [][\A t \in Trips :
        ( /\ engine \in {"lambda_processor", "local"}
          /\ Handles
          /\ ValidStart(Handled, t)
          /\ Has(trip_state, t)
          /\ IsPartial(trip_state[t])
          /\ EvFare(StartPayload(trip_state[t])) # EvFare(Handled) )
        => /\ StartPayload(trip_state'[t]) = EvPayload(Handled)
           /\ IsPartial(trip_state'[t])
           /\ EndPayload(trip_state'[t]) = NULL
           /\ quarantine' = quarantine]_vars

C8_Witness ==
    /\ engine = "lambda_processor"
    /\ Len(handled) = 2
    /\ ValidStart(handled[1], "T1")
    /\ ValidStart(handled[2], "T1")
    /\ EvFare(handled[1]) # EvFare(handled[2])
    /\ trip_state["T1"].state = "PARTIAL"
    /\ trip_state["T1"].trip_start_data = handled[2].data
    /\ trip_state["T1"].estimated_fare_amount = Float(EvFare(handled[2]))

(***************************************************************************)
(* C9: when a handler returns, the payload of the event it was handed is   *)
(* stored in a trip record or in a quarantine record (lambda_processor,    *)
(* local, flink).                                                          *)
(***************************************************************************)
InTripRecord(ts, e) ==
    \E t \in DOMAIN ts :
        \/ StartPayload(ts[t]) = EvPayload(e)
        \/ EndPayload(ts[t]) = EvPayload(e)
        \/ /\ engine = "flink"
           /\ Has(e.data, "pickup_datetime")
           /\ CanFloat(EvFare(e))
           /\ StartPayload(ts[t]) =
                [pickup_datetime |-> e.data.pickup_datetime,
                 estimated_fare_amount |-> Float(EvFare(e))]
        \/ /\ engine = "flink"
           /\ Has(e.data, "dropoff_datetime")
           /\ CanFloat(EvFare(e))
           /\ EndPayload(ts[t]) =
                [dropoff_datetime |-> e.data.dropoff_datetime,
                 fare_amount |-> Float(EvFare(e))]
InQuarantine(q, e) ==
    \E i \in 1..Len(q) :
        \/ GetOr(q[i], "raw_payload", NULL) \in {e, EvPayload(e)}
        \/ GetOr(q[i], "raw_data", NULL) = e

C9_NoEventDropped ==
    [][( /\ engine \in {"lambda_processor", "local", "flink"}
         /\ Handles )
       => \/ InTripRecord(trip_state', Handled)
          \/ InQuarantine(quarantine', Handled)]_vars
(***************************************************************************)
(* C10: when two lambda_processor invocations for one trip_id interleave   *)
(* their store calls, the final trip table and the quarantine records      *)
(* written (ingest_time apart) are those of one of the two serial orders.  *)
(***************************************************************************)
AllDone == ~Idle /\ \A i \in DOMAIN inflight : inflight[i].pc = "done"

Serial(e1, e2) == LPHandleRecord(LPHandleRecord(base, e1, 0), e2, 0)

Untimed(q) == [i \in 1..Len(q) |-> [q[i] EXCEPT !.ingest_time = 0]]
Occurrences(q, x) == Cardinality({i \in 1..Len(q) : q[i] = x})
SameRecords(q1, q2) ==
    /\ Len(q1) = Len(q2)
    /\ \A i \in 1..Len(q1) :
            Occurrences(Untimed(q1), Untimed(q1)[i])
                = Occurrences(Untimed(q2), Untimed(q1)[i])

SameOutcome(s) ==
    /\ trip_state = s.trip_state
    /\ SameRecords(quarantine, s.quarantine)

C10_ConcurrentIsSerial ==
    AllDone =>
        \/ SameOutcome(Serial(inflight[1].payload, inflight[2].payload))
        \/ SameOutcome(Serial(inflight[2].payload, inflight[1].payload))

\* a trip_start was written between a trip_end's get_item and its update_item
C10_Witness ==
    /\ AllDone
    /\ inflight[1].payload.event_type = "trip_end"
    /\ inflight[2].payload.event_type = "trip_start"
    /\ inflight[1].overlapped
    /\ Has(inflight[1].response, "Item")
    /\ inflight[1].response.Item.trip_start_data # inflight[2].payload.data
    /\ trip_state["T1"].trip_start_data = inflight[2].payload.data
    /\ trip_state["T1"].trip_end_data = inflight[1].payload.data

(***************************************************************************)
(* C11: when a local-processor trip_end runs concurrently with a           *)
(* trip_start or another trip_end for the same trip_id, the trip_state row *)
(* left when both have returned is the row one of the two serial orders    *)
(* of the calls leaves (no update is lost).                                *)
(***************************************************************************)
TPSerial(e1, e2) == TPProcessEvent(TPProcessEvent(base, e1, now), e2, now)

C11_ConcurrentIsSerial ==
    ( /\ engine = "local"
      /\ AllDone
      /\ \E i \in {1, 2} : inflight[i].event.event_type = "trip_end" )
    => LET t == inflight[1].event.trip_id
       IN  \/ trip_state[t] = TPSerial(inflight[1].event, inflight[2].event).trip_state[t]
           \/ trip_state[t] = TPSerial(inflight[2].event, inflight[1].event).trip_state[t]

(***************************************************************************)
(* C12: under at-least-once delivery to the local processor, the           *)
(* trip_count stored in daily_metrics for a date never exceeds the number  *)
(* of distinct trip_ids whose record is completed with that                *)
(* completion_date.                                                        *)
(***************************************************************************)
C12_CountWithinCompleted ==
    engine = "local" =>
        \A d \in DOMAIN daily_metrics :
            daily_metrics[d].trip_count
                <= Cardinality(CompletedTripsByDate(trip_state, d))

(***************************************************************************)
(* C13: an event whose trip_id is missing or empty never reaches the state *)
(* machine: no trip record is created or modified by it, and               *)
(* lambda_processor appends one quarantine record with reason              *)
(* INVALID_SCHEMA holding the payload (lambda_processor, local).           *)
(***************************************************************************)
C13_NoTripIdRejected ==
    [][( /\ engine \in {"lambda_processor", "local"}
         /\ Handles
         /\ EvTrip(Handled) = "" )
       => /\ trip_state' = trip_state
          /\ engine = "lambda_processor"
                => /\ Len(quarantine') = Len(quarantine) + 1
                   /\ Last(quarantine').reason = "INVALID_SCHEMA"
                   /\ Last(quarantine').raw_payload = Handled]_vars

(***************************************************************************)
(* C14: an event whose event_type is neither trip_start nor trip_end       *)
(* creates or modifies no trip record and adds one quarantine record with  *)
(* reason UNKNOWN_EVENT_TYPE holding the raw payload (lambda_processor,    *)
(* local).                                                                 *)
(***************************************************************************)
C14_UnknownTypeQuarantined ==
    [][( /\ engine \in {"lambda_processor", "local"}
         /\ Handles
         /\ Handled \in KinesisUnknown \cup LocalUnknown )
       => /\ trip_state' = trip_state
          /\ Len(quarantine') = Len(quarantine) + 1
          /\ Last(quarantine').reason = "UNKNOWN_EVENT_TYPE"
          /\ Last(quarantine').raw_payload = Handled]_vars

(***************************************************************************)
(* C15: lambda_processor.lambda_handler raises no uncaught fault for       *)
(* malformed input: every call on a batch returns normally having finished *)
(* every record of the batch (with a trip-record transition or a           *)
(* quarantine record), whether or not a record is not valid JSON, has no   *)
(* data field or has no event_type.                                        *)
(***************************************************************************)
C15_NoUncaughtFault ==
    /\ ~invocation.raised
    /\ invocation.finished = Len(invocation.records)

(***************************************************************************)
(* C16: a trip_start or trip_end whose fare field is negative or not a     *)
(* number fails as a whole: no field of it is written into a trip record   *)
(* and no record's status changes (lambda_processor, local).               *)
(***************************************************************************)
HasFare(e) ==
    e \in KinesisStarts \cup KinesisEnds \cup KinesisNegativeFare
            \cup LocalStarts \cup LocalEnds
FareOutOfRange(e) == ~CanFloat(EvFare(e)) \/ Float(EvFare(e)) < 0

C16_BadFareNotApplied ==
    [][( /\ engine \in {"lambda_processor", "local"}
         /\ Handles
         /\ HasFare(Handled)
         /\ FareOutOfRange(Handled) )
       => trip_state' = trip_state]_vars

(***************************************************************************)
(* C18: in the local processor every daily_metrics row describes the       *)
(* current completed trips of its date: its trip_count, total_fare,        *)
(* max_fare and min_fare are those computed from the trip_state rows that  *)
(* are completed with that completion_date now (numeric fares).            *)
(***************************************************************************)
C18_MetricsMatchCompleted ==
    engine = "local" =>
        \A d \in DOMAIN daily_metrics :
            LET S == CompletedTripsByDate(trip_state, d)
            IN  (\A k \in S : CanFloat(FinalFareText(trip_state, k)))
                => /\ S # {}
                   /\ daily_metrics[d].trip_count = Cardinality(S)
                   /\ daily_metrics[d].total_fare = SumFares(trip_state, S)
                   /\ daily_metrics[d].max_fare = MaxFare(trip_state, S)
                   /\ daily_metrics[d].min_fare = MinFare(trip_state, S)

(***************************************************************************)
(* Aggregation runs                                                        *)
(***************************************************************************)
\* this step made an aggregation run on its own
RunStep == Len(runs') = Len(runs) + 1
ThisRun == Last(runs')
\* this step handed the local processor a trip_end it carried through
TPEndStep ==
    /\ engine = "local"
    /\ Handles
    /\ Handled.event_type = "trip_end"
    /\ Has(Handled, "final_fare")
\* _update_daily_metrics(d) ran in this step
TPRanFor(d) ==
    \/ TPEndStep /\ TPCompletionDate(Handled) = d
    \/ RunStep /\ ThisRun.by = "local" /\ ThisRun.date = d

NumericFares(ts, S) == \A k \in S : CanFloat(FinalFareText(ts, k))
NumericEndFares(ts, S) ==
    \A k \in S : CanFloat(GetOr(ts[k].trip_end, "fare_amount", "abc"))

(***************************************************************************)
(* C17: an aggregation run for a date takes every completed trip record of *)
(* that date into account: the count it writes is the number of those      *)
(* records, the total the sum of their fares, max and min their largest    *)
(* and smallest fare, for all non-negative fares, zero included            *)
(* (_update_daily_metrics; calculate_kpis of the two KPI lambdas, of which *)
(* aggregate_daily_kpis writes count, max and min only).                   *)
(***************************************************************************)
C17_RunCountsEveryCompletedTrip ==
    [][/\ \A d \in {DateOf(h) : h \in Timestamps} :
            LET S == CompletedTripsByDate(trip_state', d)
            IN  (TPRanFor(d) /\ S # {} /\ NumericFares(trip_state', S))
                => /\ Has(daily_metrics', d)
                   /\ daily_metrics'[d].trip_count = Cardinality(S)
                   /\ daily_metrics'[d].total_fare = SumFares(trip_state', S)
                   /\ daily_metrics'[d].max_fare = MaxFare(trip_state', S)
                   /\ daily_metrics'[d].min_fare = MinFare(trip_state', S)
       /\ \A d \in GroupedDates(trip_state) :
            LET S == GroupByDate(trip_state, d)
            IN  ( /\ RunStep
                  /\ ThisRun.by = "agregate"
                  /\ NumericEndFares(trip_state, FetchCompletedTrips(trip_state)) )
                => /\ Has(s3', FlatKey(d))
                   /\ s3'[FlatKey(d)].count_trips = Cardinality(S)
                   /\ s3'[FlatKey(d)].total_fare = KpiSum(trip_state, S)
                   /\ s3'[FlatKey(d)].max_fare = KpiMax(trip_state, S)
                   /\ s3'[FlatKey(d)].min_fare = KpiMin(trip_state, S)
       /\ \A d \in GroupedDates(trip_state) :
            LET S == GroupByDate(trip_state, d)
            IN  ( /\ RunStep
                  /\ ThisRun.by = "aggregate"
                  /\ NumericEndFares(trip_state, FetchCompletedTrips(trip_state)) )
                => /\ Has(s3', PartitionedKey(d))
                   /\ s3'[PartitionedKey(d)].total_trips = Cardinality(S)
                   /\ s3'[PartitionedKey(d)].highest_fare = KpiMax(trip_state, S)
                   /\ s3'[PartitionedKey(d)].lowest_fare = KpiMin(trip_state, S)]_vars

(***************************************************************************)
(* C19: aggregation is idempotent: a run that follows a run of the same    *)
(* aggregator for the same date, no event having been handled (so no trip  *)
(* record written) in between, leaves the stored metrics with the same     *)
(* count, total, average, max and min (_update_daily_metrics; main of the  *)
(* KPI lambdas).                                                           *)
(***************************************************************************)
\* a daily_metrics table without its generated_at column
Figures(dm) ==
    [d \in DOMAIN dm |->
        [total_fare |-> dm[d].total_fare, trip_count |-> dm[d].trip_count,
         average_fare |-> dm[d].average_fare, max_fare |-> dm[d].max_fare,
         min_fare |-> dm[d].min_fare]]

C19_AggregationIdempotent ==
    [][( /\ RunStep
         /\ Len(runs) >= 1
         /\ ThisRun.by = Last(runs).by
         /\ ThisRun.date = Last(runs).date
         /\ Last(runs).at = Len(handled) )
       => /\ Figures(daily_metrics') = Figures(daily_metrics)
          /\ s3' = s3]_vars

\* two runs for day 0 over two completed trips, the clock having advanced
\* past the rows' updated_at
C19_Witness ==
    /\ engine = "local"
    /\ Len(runs) = 2
    /\ runs[1] = runs[2]
    /\ runs[2].at = Len(handled)
    /\ Has(daily_metrics, 0)
    /\ daily_metrics[0].trip_count = 2
    /\ daily_metrics[0].total_fare = 2
    /\ daily_metrics[0].generated_at = 1
    /\ \A t \in Trips : Has(trip_state, t) /\ trip_state[t].updated_at = 0

(***************************************************************************)
(* C20: when one more trip becomes completed for a date between two        *)
(* aggregation runs for that date, the second run writes a count one       *)
(* greater than the first wrote and a total greater by that trip's fare,   *)
(* for every non-negative fare of the added trip.  Stated for the local    *)
(* processor, whose runs are those of two consecutive trip_end events:     *)
(* the second completes a trip the first run did not see.                  *)
(***************************************************************************)
C20_OneMoreTripCounted ==
    [][\A d \in {DateOf(h) : h \in Timestamps} :
            ( /\ TPEndStep
              /\ TPCompletionDate(Handled) = d
              /\ Len(handled) >= 1
              /\ Last(handled).event_type = "trip_end"
              /\ TPCompletionDate(Last(handled)) = d
              /\ Handled.trip_id \notin CompletedTripsByDate(trip_state, d)
              /\ NumericFares(trip_state', CompletedTripsByDate(trip_state', d))
              /\ Has(daily_metrics, d) )
            => /\ daily_metrics'[d].trip_count = daily_metrics[d].trip_count + 1
               /\ daily_metrics'[d].total_fare =
                    daily_metrics[d].total_fare + Float(Handled.final_fare)]_vars

(***************************************************************************)
(* C21: no metrics output is written for a date without completed trips,   *)
(* and no written metrics record has a trip count of zero: every record    *)
(* written by _update_daily_metrics or by main / calculate_kpis of the KPI *)
(* lambdas has a count of at least 1.                                      *)
(***************************************************************************)
\* the count a KPI object carries (count_trips / total_trips)
KpiCount(body) ==
    IF Has(body, "count_trips") THEN body.count_trips ELSE body.total_trips
\* the rows and objects this step wrote anew or changed
RowsWritten ==
    {d \in DOMAIN daily_metrics' :
        ~Has(daily_metrics, d) \/ daily_metrics'[d] # daily_metrics[d]}
ObjectsWritten == {k \in DOMAIN s3' : ~Has(s3, k) \/ s3'[k] # s3[k]}

C21_NoEmptyMetrics ==
    [][/\ \A d \in RowsWritten :
            /\ daily_metrics'[d].trip_count >= 1
            /\ CompletedTripsByDate(trip_state', d) # {}
       /\ \A k \in ObjectsWritten :
            /\ KpiCount(s3'[k]) >= 1
            /\ GroupByDate(trip_state', k.date) # {}]_vars

(***************************************************************************)
(* C22: there is at most one DailyMetrics record per date at all times:    *)
(* each aggregation write for a date replaces the previous record for that *)
(* date as a whole and never adds a second one or merges fields with the   *)
(* old one (daily_metrics keyed by date with INSERT OR REPLACE; one S3     *)
(* object per date and aggregator).                                        *)
(***************************************************************************)
\* the columns of the daily_metrics table
MetricsColumns ==
    {"date", "total_fare", "trip_count", "average_fare", "max_fare",
     "min_fare", "generated_at"}
\* the record a run for `date` writes into an empty table / bucket
FreshRow(ts, date, t) == TPUpdateDailyMetrics(ts, <<>>, date, t)
FreshFlat(ts, date) == [date |-> date] @@ AgregateKpis(ts, GroupByDate(ts, date))
FreshPartitioned(ts, date) ==
    [date |-> date] @@ AggregateKpis(ts, GroupByDate(ts, date))

LateTimestamps == {1, HoursPerDay + 1}
DatedLocalEvents ==
    {LocalStart(t, "1", 0) : t \in Trips}
        \cup {LocalEnd(t, "1", d, ts) :
                t \in Trips, d \in DropoffTimes, ts \in LateTimestamps}

InitDates == Init /\ engine \in {"lambda_function", "local"}

NextDates ==
    \/ Tick
    \/ \E e \in DatedLocalEvents : TPDeliver(e)
    \/ \E e \in KpiKinesisEvents : LFDeliver(e)
    \/ AggregateMain

SpecDates == InitDates /\ [][NextDates]_vars

(***************************************************************************)
(* C23: for every completed trip record, completion_date is the calendar   *)
(* date of the dropoff_datetime in its end payload, and not the date of    *)
(* any other time (event timestamp, processing time), also when these fall *)
(* on different dates.  The items of lambda_function.py carry no           *)
(* completion_date: theirs is the date group_by_date files them under.     *)
(***************************************************************************)
C23_CompletionDateIsDropoffDate ==
    [][/\ engine = "local" =>
            \A k \in DOMAIN trip_state' :
                (IsComplete(trip_state'[k]) /\ EndPayload(trip_state'[k]) # NULL)
                => trip_state'[k].completion_date
                        = DateOf(EndPayload(trip_state'[k]).dropoff_datetime)
       /\ (RunStep /\ ThisRun.by = "aggregate") =>
            \A d \in GroupedDates(trip_state) :
                \A k \in GroupByDate(trip_state, d) :
                    /\ Has(s3', PartitionedKey(d))
                    /\ d = DateOf(EndPayload(trip_state[k]).dropoff_datetime)]_vars

(***************************************************************************)
(* monitor_data_quality.py: the data quality sweep.  It scans the          *)
(* trip_state table and reads the items as lambda_function.py writes them  *)
(* (status, trip_start, trip_end).  issues_logged is a list of the module: *)
(* it lives as long as the process (the warm Lambda container) does.       *)
(***************************************************************************)
MaxSweeps == 2
THRESHOLD_HOURS == 6
AlertIssues == 10

\* what a sweep reads and writes
Mon(ts, q, il, pub) ==
    [trip_state |-> ts, quarantine |-> q, issues_logged |-> il, sns |-> pub]

\* a dict without keys ({}; also what item.get(key, {}) gives for no key)
EmptyDict == <<>>
Empty(d) == DOMAIN d = {}

\* log_issue(trip_id, issue, data)
MutLogIssueDeletes(m, trip_id, issue, data, t) ==
    LET record == [trip_id |-> trip_id, reason |-> issue, raw_payload |-> data,
                   ingest_time |-> t]
    IN  [m EXCEPT !.trip_state = [k \in DOMAIN @ \ {trip_id} |-> @[k]],
                  !.quarantine = Append(@, record),
                  !.issues_logged = Append(@, record)]
LogIssue(m, trip_id, issue, data, t) ==
    LET record == [trip_id |-> trip_id, reason |-> issue, raw_payload |-> data,
                   ingest_time |-> t]
    IN  [m EXCEPT !.quarantine = Append(@, record),
                  !.issues_logged = Append(@, record)]

\* send_alert(): nothing when issues_logged is empty, else one sns.publish
\* with the first ten issues
SendAlert(m, t) ==
    LET il == m.issues_logged
        shown == IF Len(il) < AlertIssues THEN Len(il) ELSE AlertIssues
    IN  IF il = <<>> THEN m
        ELSE [m EXCEPT !.sns = Append(@, [timestamp |-> t,
                                          total_issues |-> Len(il),
                                          issues |-> SubSeq(il, 1, shown)])]

\* the loop body of lambda_handler for one item, `seen` the trip ids of the
\* items before it; the result is the state and the new seen_trip_ids
MutDuplicateSeesItself(m, item, seen, t) ==
    IF GetOr(item, "trip_id", "") \in seen \cup {GetOr(item, "trip_id", "")}
    THEN LogIssue(m, GetOr(item, "trip_id", ""), "Duplicate trip_id", item, t)
    ELSE m
DuplicateCheck(m, item, seen, t) ==
    IF GetOr(item, "trip_id", "") \in seen
    THEN LogIssue(m, GetOr(item, "trip_id", ""), "Duplicate trip_id", item, t)
    ELSE m
StaleCheck(m, item, t) ==
    LET start == GetOr(item, "trip_start", EmptyDict)
        trip_id == GetOr(item, "trip_id", "")
    IN  IF GetOr(item, "status", "") # "started" THEN m
        ELSE IF ~Has(start, "pickup_datetime")
        THEN LogIssue(m, trip_id,
                      "Invalid start datetime format: 'pickup_datetime'", item, t)
        ELSE IF t - start.pickup_datetime > THRESHOLD_HOURS
        THEN LogIssue(m, trip_id, "Trip has not ended after 6+ hours", item, t)
        ELSE m
MutOrphanAbsentOnly(m, item, t) ==
    IF GetOr(item, "status", "") = "completed" /\ ~Has(item, "trip_start")
    THEN LogIssue(m, GetOr(item, "trip_id", ""),
                  "Trip has trip_end but no trip_start", item, t)
    ELSE m
OrphanCheck(m, item, t) ==
    IF /\ GetOr(item, "status", "") = "completed"
       /\ Empty(GetOr(item, "trip_start", EmptyDict))
    THEN LogIssue(m, GetOr(item, "trip_id", ""),
                  "Trip has trip_end but no trip_start", item, t)
    ELSE m
FareCheck(m, item, t) ==
    LET end == GetOr(item, "trip_end", EmptyDict)
        trip_id == GetOr(item, "trip_id", "")
    IN  IF Empty(end) \/ ~Has(end, "fare_amount") THEN m
        ELSE IF ~CanFloat(end.fare_amount)
        THEN LogIssue(m, trip_id,
                      "Invalid fare value: could not convert string to float",
                      item, t)
        ELSE IF Float(end.fare_amount) < 1 \/ Float(end.fare_amount) > 500
        THEN LogIssue(m, trip_id, "Suspicious fare", item, t)
        ELSE m
CheckItem(m, item, seen, t) ==
    FareCheck(OrphanCheck(StaleCheck(DuplicateCheck(m, item, seen, t),
                                     item, t), item, t), item, t)

RECURSIVE CheckItems(_, _, _, _)
CheckItems(m, items, seen, t) ==
    IF items = <<>> THEN m
    ELSE CheckItems(CheckItem(m, Head(items), seen, t), Tail(items),
                    seen \cup {GetOr(Head(items), "trip_id", "")}, t)

\* lambda_handler, `items` the scan's response
MonitorLambdaHandler(m, items, t) == SendAlert(CheckItems(m, items, {}, t), t)

\* table.scan(): the items, in an order the table chooses
Scans(ts) ==
    {items \in [1..Cardinality(DOMAIN ts) -> {ts[k] : k \in DOMAIN ts}] :
        \A k \in DOMAIN ts : \E i \in DOMAIN items : items[i] = ts[k]}

\* one invocation of the sweep on the response `items`
SweepOn(items) ==
    /\ Len(scanned) < MaxSweeps
    /\ LET r == MonitorLambdaHandler(
                    Mon(trip_state, quarantine, issues_logged, sns), items, now)
       IN  /\ trip_state' = r.trip_state
           /\ quarantine' = r.quarantine
           /\ issues_logged' = r.issues_logged
           /\ sns' = r.sns
    /\ scanned' = Append(scanned, items)
    /\ UNCHANGED <<engine, now, trip_events, daily_metrics, handled,
                   prev_trip_state, inflight, base, s3, runs, invocation, generator>>

Sweep ==
    /\ engine \in {"lambda_processor", "lambda_function"}
    /\ \E items \in Scans(trip_state) : SweepOn(items)

\* the container is replaced: the module is loaded anew
ColdStart ==
    /\ issues_logged # <<>>
    /\ issues_logged' = <<>>
    /\ UNCHANGED <<engine, now, trip_state, quarantine, trip_events,
                   daily_metrics, handled, prev_trip_state, inflight, base,
                   s3, runs, invocation, sns, scanned, generator>>

\* the hours pass until a sweep is due: six hours after the pickups, and
\* one more
SweepTimes == {THRESHOLD_HOURS, THRESHOLD_HOURS + 1}
Elapse ==
    /\ \E t \in SweepTimes : now < t /\ now' = t
    /\ UNCHANGED <<engine, trip_state, quarantine, trip_events, daily_metrics,
                   handled, prev_trip_state, inflight, base, s3, runs,
                   invocation, issues_logged, sns, scanned, generator>>

\* a deployment with the sweep: the handlers' events carry fares at and
\* beside the sweep's bounds
SweepFareText == {"0", "1", "500", "501"}
SweepKinesisEvents ==
    {[event_type |-> "trip_start", data |-> StartData(t, "1")] : t \in Trips}
        \cup {[event_type |-> "trip_end", data |-> EndData(t, f, d)] :
                t \in Trips, f \in SweepFareText, d \in DropoffTimes}

InitSweep == Init /\ engine \in {"lambda_processor", "lambda_function"}

NextSweep ==
    \/ Elapse
    \/ \E e \in SweepKinesisEvents : LPDeliver(e)
    \/ \E e \in SweepKinesisEvents : LFDeliver(e)
    \/ Sweep
    \/ ColdStart

SpecSweep == InitSweep /\ [][NextSweep]_vars

(***************************************************************************)
(* Sweeps                                                                  *)
(***************************************************************************)
\* this step was one invocation of the sweep; the rows it examined and the
\* quarantine records it wrote
SweepStep == Len(scanned') = Len(scanned) + 1
Examined == Last(scanned')
Flagged == SubSeq(quarantine', Len(quarantine) + 1, Len(quarantine'))
FlaggedAs(trip_id, reasons) ==
    {i \in DOMAIN Flagged :
        Flagged[i].trip_id = trip_id /\ Flagged[i].reason \in reasons}

\* the taxonomy's name of a rule, and the text the sweep writes for it
StalePartial == {"STALE_PARTIAL", "Trip has not ended after 6+ hours"}
OrphanCompletion == {"ORPHAN_COMPLETION", "Trip has trip_end but no trip_start"}
SuspiciousFare == {"SUSPICIOUS_FARE", "Suspicious fare"}
DuplicateTripId == {"DUPLICATE_TRIP_ID", "Duplicate trip_id"}

(***************************************************************************)
(* C24: in a sweep, every trip record in the partial state (a start, no    *)
(* end) whose pickup_datetime is more than 6 hours before the sweep time   *)
(* gets a STALE_PARTIAL quarantine record, a partial record whose pickup   *)
(* is 6 hours old or less gets none, and the flagged trip record is the    *)
(* same after the sweep as before; for the partial records as the event    *)
(* handlers of the repository write them.  The sweep's own wording of the  *)
(* reason counts as STALE_PARTIAL here.                                    *)
(***************************************************************************)
C24_StalePartialFlagged ==
    [][SweepStep =>
        \A k \in DOMAIN trip_state :
            (IsPartial(trip_state[k]) /\ StartPayload(trip_state[k]) # NULL)
            => /\ (now - StartPayload(trip_state[k]).pickup_datetime > THRESHOLD_HOURS)
                    <=> FlaggedAs(k, StalePartial) # {}
               /\ trip_state'[k] = trip_state[k]]_vars

(***************************************************************************)
(* The sweep over any content of the trip_state table: items of the shapes *)
(* lambda_function.py and lambda_processor.py write, and items no handler  *)
(* of the repository writes (a completed item without trip_start or with   *)
(* an empty one, a started item that has a trip_end).                      *)
(***************************************************************************)
ScanFareText == SweepFareText \cup {"abc"}
ScanItems(t) ==
    {[trip_id |-> t, status |-> "started", trip_start |-> StartData(t, "1")],
     [trip_id |-> t, status |-> "started", trip_start |-> [trip_id |-> t]],
     [trip_id |-> t, status |-> "started", trip_start |-> StartData(t, "1"),
      trip_end |-> EndData(t, "0", 1)],
     [trip_id |-> t, status |-> "completed", trip_end |-> EndData(t, "1", 1)],
     [trip_id |-> t, status |-> "completed", trip_start |-> EmptyDict,
      trip_end |-> EndData(t, "1", 1)],
     [trip_id |-> t, status |-> "started"],
     [trip_id |-> t] @@ LPStartAttrs(EmptyDict, StartData(t, "1")),
     LPEndAttrs(EndData(t, "0", 1))
        @@ [trip_id |-> t] @@ LPStartAttrs(EmptyDict, StartData(t, "1"))}
        \cup {[trip_id |-> t, status |-> "completed",
               trip_start |-> StartData(t, "1"),
               trip_end |-> EndData(t, f, 1)] : f \in ScanFareText}
ScanTables ==
    UNION {{ts \in [S -> UNION {ScanItems(t) : t \in S}] :
                \A t \in S : ts[t].trip_id = t} : S \in SUBSET Trips}

InitScan ==
    /\ engine = "lambda_function"
    /\ now = 0
    /\ trip_state \in ScanTables
    /\ quarantine = <<>>
    /\ trip_events = <<>>
    /\ daily_metrics = <<>>
    /\ handled = <<>>
    /\ prev_trip_state = <<>>
    /\ inflight = <<>>
    /\ base = Store(<<>>, <<>>)
    /\ s3 = <<>>
    /\ runs = <<>>
    /\ invocation = NoInvocation
    /\ issues_logged = <<>>
    /\ sns = <<>>
    /\ scanned = <<>>
    /\ generator = NoGenerator

NextScan ==
    \/ Elapse
    \/ Sweep
    \/ ColdStart

SpecScan == InitScan /\ [][NextScan]_vars

(***************************************************************************)
(* C25: a sweep never mutates trip records: for every content of the trip  *)
(* state table, the table is identical before and after                    *)
(* monitor_data_quality.lambda_handler runs; the sweep's only writes are   *)
(* additions to the quarantine table and the alert.                        *)
(***************************************************************************)
C25_SweepLeavesTripState ==
    [][SweepStep =>
        /\ trip_state' = trip_state
        /\ SubSeq(quarantine', 1, Len(quarantine)) = quarantine
        /\ SubSeq(sns', 1, Len(sns)) = sns
        /\ UNCHANGED <<trip_events, daily_metrics, s3, generator>>]_vars

\* a sweep over two items has flagged both and published the alert
C25_Witness ==
    /\ Len(scanned) = 1
    /\ DOMAIN trip_state = Trips
    /\ \A t \in Trips : \E i \in DOMAIN quarantine : quarantine[i].trip_id = t
    /\ Len(sns) = 1

(***************************************************************************)
(* C26: for every sequence of sweeps run in the same process, each         *)
(* invocation of monitor_data_quality.lambda_handler publishes at most one *)
(* alert, and an invocation that itself found zero issues publishes no     *)
(* alert.                                                                  *)
(***************************************************************************)
C26_OneAlertPerSweepWithIssues ==
    [][SweepStep =>
        /\ Len(sns') <= Len(sns) + 1
        /\ Flagged = <<>> => sns' = sns]_vars

\* a trip record's status and start payload, in either handler's attributes
RecordComplete(item) ==
    GetOr(item, "status", "") = "completed" \/ GetOr(item, "state", "") = "COMPLETE"
RecordStartAbsent(item) ==
    /\ Empty(GetOr(item, "trip_start", EmptyDict))
    /\ Empty(GetOr(item, "trip_start_data", EmptyDict))

RecordEndFare(item) ==
    IF Has(item, "trip_end") /\ Has(item.trip_end, "fare_amount")
    THEN item.trip_end.fare_amount
    ELSE IF Has(item, "trip_end_data") /\ Has(item.trip_end_data, "fare_amount")
    THEN item.trip_end_data.fare_amount
    ELSE "abc"
FareOutsideBounds(item) ==
    /\ CanFloat(RecordEndFare(item))
    /\ Float(RecordEndFare(item)) < 1 \/ Float(RecordEndFare(item)) > 500

(***************************************************************************)
(* C28: in a sweep, a trip record is flagged as suspicious fare exactly    *)
(* when it is COMPLETE and its end fare_amount lies outside the closed     *)
(* interval [1, 500]: fares equal to 1 or 500 are not flagged, and a       *)
(* record that is not COMPLETE is never flagged with that reason.          *)
(***************************************************************************)
C28_SuspiciousFareFlagged ==
    [][SweepStep =>
        \A k \in DOMAIN trip_state :
            FlaggedAs(k, SuspiciousFare) # {}
                <=> (RecordComplete(trip_state[k]) /\ FareOutsideBounds(trip_state[k]))]_vars

(***************************************************************************)
(* The sweep's loop as a function of the rows it is given.  A trip_state   *)
(* table keyed by trip_id returns every trip_id once (Scans); here the     *)
(* response is any sequence of rows, a trip_id occurring again among them. *)
(***************************************************************************)
MaxRows == 3
RowItems ==
    {[trip_id |-> t, status |-> "started", trip_start |-> StartData(t, "1")] :
        t \in Trips}
        \cup {[trip_id |-> t, status |-> "completed",
               trip_start |-> StartData(t, "1"),
               trip_end |-> EndData(t, "1", 1)] : t \in Trips}
        \cup {[trip_id |-> "T1", status |-> "completed",
                trip_start |-> StartData("T1", "1"),
                trip_end |-> EndData("T1", "0", 1)]}
ScanResponses == UNION {[1..n -> RowItems] : n \in 1..MaxRows}

\* one response a behaviour: between sweeps the loop keeps nothing but
\* issues_logged, which it does not read
SweepResponse ==
    /\ engine = "lambda_function"
    /\ scanned = <<>>
    /\ \E items \in ScanResponses : SweepOn(items)

InitRows == Init /\ engine = "lambda_function"

NextRows == SweepResponse

SpecRows == InitRows /\ [][NextRows]_vars

(***************************************************************************)
(* C29: in a sweep, a trip_id that occurs more than once among the rows    *)
(* the sweep examines is flagged as a duplicate trip_id, once for each     *)
(* occurrence after the first, and a trip_id that occurs once is never     *)
(* flagged as duplicate.                                                   *)
(***************************************************************************)
RowsOf(items, trip_id) == {i \in DOMAIN items : items[i].trip_id = trip_id}

C29_DuplicateTripIdFlagged ==
    [][SweepStep =>
        \A t \in Trips :
            Cardinality(FlaggedAs(t, DuplicateTripId))
                = IF RowsOf(Examined, t) = {} THEN 0
                  ELSE Cardinality(RowsOf(Examined, t)) - 1]_vars

\* one sweep over three rows: T1 twice (as different items) and T2 once;
\* one duplicate record, for T1
C29_Witness ==
    /\ Len(scanned) = 1
    /\ Len(scanned[1]) = 3
    /\ Cardinality(RowsOf(scanned[1], "T1")) = 2
    /\ scanned[1][1] # scanned[1][2]
    /\ Cardinality(RowsOf(scanned[1], "T2")) = 1
    /\ Len(quarantine) = 1
    /\ quarantine[1].trip_id = "T1"
    /\ quarantine[1].reason \in DuplicateTripId

(***************************************************************************)
(* C30: the reason of every quarantine record ever written, by any writer  *)
(* in the repository (lambda_processor.quarantine,                         *)
(* monitor_data_quality.log_issue, the generator's quarantine_event), is   *)
(* one of the nine values of the taxonomy.  The records of                 *)
(* lambda_function.py carry an `error`, no reason.                         *)
(***************************************************************************)
Taxonomy ==
    {"INVALID_SCHEMA", "UNKNOWN_EVENT_TYPE", "ORPHAN_END", "DUPLICATE_END",
     "STALE_PARTIAL", "DUPLICATE_TRIP_ID", "ORPHAN_COMPLETION",
     "SUSPICIOUS_FARE", "PROCESSING_ERROR"}

C30_ReasonInTaxonomy ==
    \A i \in DOMAIN quarantine :
        Has(quarantine[i], "reason") => quarantine[i].reason \in Taxonomy

(***************************************************************************)
(* The quarantined_events table.  `quarantine` is the sequence of the      *)
(* put_item calls; the table holds, for every primary key, the item of the *)
(* last call with that key.  The table is created outside the repository:  *)
(* its key is made of attributes that every writer of a reason puts in its *)
(* item, which are trip_id and reason (lambda_processor.quarantine,        *)
(* log_issue and quarantine_event share no other attribute).               *)
(***************************************************************************)
KeySchemas == {{"trip_id"}, {"trip_id", "reason"}}
KeyOf(item, schema) == [a \in schema |-> item[a]]
\* the put_item calls that carry a trip_id (lambda_function.py's carry an
\* event_id instead)
Puts(q) == {i \in DOMAIN q : Has(q[i], "trip_id")}
\* the calls whose item is still in the table
Kept(q, schema) ==
    {i \in Puts(q) :
        \A j \in Puts(q) : j > i => KeyOf(q[j], schema) # KeyOf(q[i], schema)}

(***************************************************************************)
(* C31: the quarantine store is append-only: a quarantine record once      *)
(* written is never overwritten or removed by a later quarantine write,    *)
(* including a later write for the same trip_id (a second anomaly of the   *)
(* trip, a second flag in the same sweep, a later sweep); the number of    *)
(* quarantine records equals the number of quarantine writes performed.    *)
(***************************************************************************)
C31_QuarantineAppendOnly ==
    \A schema \in KeySchemas : Kept(quarantine, schema) = Puts(quarantine)


(***************************************************************************)
(* C32: the handler's decision is a function of (current record of the     *)
(* event's trip, event).  Every handled event ends with the trip record    *)
(* and the quarantine outcome (trip_id, reason) that the same handler       *)
(* yields when it is run again, at another clock value, on a store that     *)
(* holds nothing but that trip's current record.  The values the engine     *)
(* reads from its clock (created_at, updated_at, ingest_time) are not part  *)
(* of the decision and are left out of the comparison.                      *)
(* (lambda_processor, local)                                                *)
(***************************************************************************)
ClockFields == {"created_at", "updated_at", "ingest_time"}
Unclocked(item) == [a \in DOMAIN item \ ClockFields |-> item[a]]
\* the store cut down to the record of one trip
Only(ts, k) == [x \in DOMAIN ts \cap {k} |-> ts[x]]
RecordOf(ts, k) == IF k \in DOMAIN ts THEN Unclocked(ts[k]) ELSE NULL
\* (trip_id, reason) of the quarantine records written after the first n
Outcome(q, n) == [i \in 1..(Len(q) - n) |-> <<q[n + i].trip_id, q[n + i].reason>>]
\* the second run: same record, same event, nothing else in the store
Retry(ts, e, t) ==
    IF engine = "lambda_processor"
    THEN LPHandleRecord(Store(Only(ts, EvTrip(e)), <<>>), e, t)
    ELSE LET db == TPProcessEvent(Db(Only(ts, EvTrip(e)), <<>>, <<>>), e, t)
         IN  Store(db.trip_state, <<>>)
RetryTime == MaxTime + 1
HasEndPayload(item) == EndPayload(item) # NULL
C33_EndPayloadIffComplete ==
    engine \in {"lambda_processor", "lambda_function", "local"} =>
        \A k \in DOMAIN trip_state :
            HasEndPayload(trip_state[k]) <=> IsComplete(trip_state[k])

\* a trip_start for a complete trip put its record back in progress
C33_Witness ==
    /\ engine = "local"
    /\ \E k \in DOMAIN trip_state \cap DOMAIN prev_trip_state :
          /\ IsComplete(prev_trip_state[k])
          /\ HasEndPayload(prev_trip_state[k])
          /\ IsPartial(trip_state[k])
          /\ ~HasEndPayload(trip_state[k])


(***************************************************************************)
(* C34: in the local processor created_at of a trip record keeps, in every *)
(* later state, the value it got when the record was created: no event for *)
(* the trip_id changes it.                                                 *)
(***************************************************************************)
C34_CreatedAtKept ==
    [][engine = "local" =>
         \A k \in DOMAIN trip_state \cap DOMAIN trip_state' :
             trip_state'[k].created_at = trip_state[k].created_at]_vars


(***************************************************************************)
(* C35: in the local processor, right after _process_trip_end has          *)
(* completed a trip, daily_metrics has a row for the trip's                *)
(* completion_date whose count and total are those of a set of that        *)
(* date's completed trips which holds this trip, whatever end fare the     *)
(* event carried.                                                          *)
(***************************************************************************)
Includes(row, ts, d, k) ==
    \E S \in SUBSET CompletedTripsByDate(ts, d) :
        /\ k \in S
        /\ NumericFares(ts, S)
        /\ row.trip_count = Cardinality(S)
        /\ row.total_fare = SumFares(ts, S)
C35_CompletionTriggersAggregation ==
    [][TPEndStep =>
         LET k == Handled.trip_id
             d == TPCompletionDate(Handled)
         IN  /\ Has(trip_state', k)
             /\ trip_state'[k].status = "completed"
             /\ Has(daily_metrics', d)
             /\ Includes(daily_metrics'[d], trip_state', d, k)]_vars


(***************************************************************************)
(* C36: the alert a sweep publishes reports the flags of that sweep: its   *)
(* total_issues is the number of quarantine records this invocation of the *)
(* sweep wrote, whatever sweeps ran before it in the same process.         *)
(***************************************************************************)
C36_AlertCountsThisSweep ==
    [][(SweepStep /\ sns' # sns) =>
         Last(sns').total_issues = Len(Flagged)]_vars


(***************************************************************************)
(* C37: in the local processor trip_events is append-only and gains        *)
(* exactly one row, holding the event, for every event that passes         *)
(* _validate_event and _create_event_object, and none for an event that    *)
(* does not; the row is there also when the processing of the trip state   *)
(* that follows fails, and no step touches the trip state or the metrics   *)
(* without having added its row.                                           *)
(***************************************************************************)
Accepted(event_data) ==
    IF TPValidateEvent(event_data) THEN ~TPCreateRaises(event_data) ELSE FALSE
C37_LineageAppendOnly ==
    [][engine = "local" =>
         /\ Len(trip_events') >= Len(trip_events)
         /\ SubSeq(trip_events', 1, Len(trip_events)) = trip_events
         /\ (Handles /\ Accepted(Handled)) =>
                /\ Len(trip_events') = Len(trip_events) + 1
                /\ Last(trip_events').event_data = ToDict(Handled)
                /\ Last(trip_events').trip_id = Handled.trip_id
         /\ ~(Handles /\ Accepted(Handled)) =>
                /\ trip_events' = trip_events
                /\ trip_state' = trip_state
                /\ daily_metrics' = daily_metrics]_vars
\* a rejected event left no row, and a trip_end whose aggregation raised
\* left its row
C37_Witness ==
    /\ engine = "local"
    /\ Len(handled) = 2
    /\ ~Accepted(handled[1])
    /\ Accepted(handled[2])
    /\ handled[2].event_type = "trip_end"
    /\ ~CanFloat(handled[2].final_fare)
    /\ Len(trip_events) = 1
    /\ trip_events[1].event_data = ToDict(handled[2])
    /\ daily_metrics = <<>>


(***************************************************************************)
(* The generator on its own: stream_randomized loads the two files,        *)
(* shuffles the rows and walks through them.                               *)
(***************************************************************************)
\* stream_randomized up to the loop: load_csv_events twice, random.shuffle
StreamRandomized ==
    /\ generator.pc = "load"
    /\ \E trip_starts \in BoundedSeqs(GenStartRows, MaxGenRows),
          trip_ends \in BoundedSeqs(GenEndRows, MaxGenRows) :
          /\ Len(trip_starts) + Len(trip_ends) <= MaxGenRows
          /\ \E combined \in Shuffles(trip_starts \o trip_ends) :
                generator' = [generator EXCEPT !.pc = "loop",
                                               !.combined = combined]
    /\ UNCHANGED <<engine, now, trip_state, quarantine, trip_events,
                   daily_metrics, handled, prev_trip_state, inflight, base,
                   s3, runs, invocation, issues_logged, sns, scanned>>

\* one turn of `for item in combined`
StreamNext ==
    /\ generator.pc = "loop"
    /\ generator.position <= Len(generator.combined)
    /\ LET r == StreamItem(generator, quarantine,
                           generator.combined[generator.position], now)
       IN  /\ generator' = r.generator
           /\ quarantine' = r.quarantine
    /\ UNCHANGED <<engine, now, trip_state, trip_events,
                   daily_metrics, handled, prev_trip_state, inflight, base,
                   s3, runs, invocation, issues_logged, sns, scanned>>

InitGen == Init /\ engine = "lambda_processor"
NextGen == StreamRandomized \/ StreamNext
SpecGen == InitGen /\ [][NextGen]_vars

\* this step is one turn of the loop; the row it took and what was sent
LoopStep == generator'.position = generator.position + 1
Row == generator.combined[generator.position]
Sent(g) == g.stream
StartSentBefore(stream, i) ==
    \E j \in 1..(i - 1) :
        /\ stream[j].event_type = "trip_start"
        /\ stream[j].data.trip_id = stream[i].data.trip_id
\* the row is a trip_end and no trip_start of its trip came before it
EndBeforeStart ==
    /\ Row.type = "trip_end"
    /\ \A j \in 1..(generator.position - 1) :
          ~( /\ generator.combined[j].type = "trip_start"
             /\ generator.combined[j].event.trip_id = Row.event.trip_id )
RowSent ==
    /\ Sent(generator') = Append(Sent(generator), SendEventToKinesis(Row.event, Row.type))
    /\ quarantine' = quarantine
RowQuarantined ==
    /\ Len(quarantine') = Len(quarantine) + 1
    /\ SubSeq(quarantine', 1, Len(quarantine)) = quarantine
    /\ Last(quarantine').trip_id = Row.event.trip_id
    /\ Last(quarantine').event_data = [json |-> Row.event]
    /\ Sent(generator') = Sent(generator)

(***************************************************************************)
(* C38: the generator never publishes an unmatched end.  For every order   *)
(* of the rows, every turn of the loop either sends its row or writes it   *)
(* to quarantine, never both and never twice; a trip_end met before its    *)
(* trip_start is quarantined and not sent; and every trip_end on the       *)
(* stream comes after a trip_start with the same trip_id on the stream.    *)
(***************************************************************************)
C38_NoUnmatchedEndPublished ==
    [][/\ generator'.combined # generator.combined => generator.pc = "load"
       /\ generator'.position \in {generator.position, generator.position + 1}
       /\ LoopStep =>
            /\ RowSent \/ RowQuarantined
            /\ EndBeforeStart => RowQuarantined
            /\ \A i \in DOMAIN Sent(generator') :
                  Sent(generator')[i].event_type = "trip_end"
                      => StartSentBefore(Sent(generator'), i)
       /\ ~LoopStep =>
            /\ Sent(generator') = Sent(generator)
            /\ quarantine' = quarantine]_vars
\* an end came first and was quarantined, then the start and a second end
\* of the same trip were sent
C38_Witness ==
    /\ generator.pc = "loop"
    /\ generator.position = Len(generator.combined) + 1
    /\ Len(generator.combined) = 3
    /\ Len(quarantine) = 1
    /\ Len(Sent(generator)) = 2
    /\ Sent(generator)[2].event_type = "trip_end"
    /\ quarantine[1].trip_id = Sent(generator)[2].data.trip_id
=============================================================================
